---------------------------- MODULE Spec2Model ----------------------------
(***************************************************************************)
(* Model of the transport core of the Mnexium Python SDK                   *)
(* (src/mnexium/client.py, src/mnexium/errors.py).                         *)
(*                                                                         *)
(* One client instance issues a bounded number of calls, each either       *)
(* through the buffered path (Mnexium._request) or through the raw path    *)
(* (Mnexium._request_raw).  The server (and the network) answer each HTTP  *)
(* attempt nondeterministically.                                           *)
(***************************************************************************)
EXTENDS Integers, Sequences, FiniteSets, TLC

\* ------------------------------------------------------------------------
\* Bounds of the model
\* ------------------------------------------------------------------------
MaxRetries == 2      \* largest max_retries value a client is built with
MaxCalls == 2        \* number of calls issued on one client

\* ------------------------------------------------------------------------
\* Values
\* ------------------------------------------------------------------------
None == "None"       \* Python None where the other values are strings
NoInt == 0 - 1       \* Python None where the other values are integers

\* Python truthiness of an Optional[str]
Truthy(s) == s # None /\ s # ""

\* A decoded JSON object as _handle_error_response_dict reads it: the four
\* keys it looks at, None when the key is missing.
EmptyDict == [message |-> None, error |-> None, current |-> NoInt, limit |-> NoInt]

Counters == {<<NoInt, NoInt>>, <<1, 2>>}

Dicts == {[message |-> m, error |-> e, current |-> c[1], limit |-> c[2]] :
            m \in {None, "", "msg"}, e \in {None, "err"}, c \in Counters}

\* A response body: empty text, text that is not JSON, or a JSON object.
Bodies == {[kind |-> "empty", dict |-> EmptyDict],
           [kind |-> "garbage", dict |-> EmptyDict]}
          \cup {[kind |-> "object", dict |-> d] : d \in Dicts}

Statuses == {200, 204, 302, 400, 401, 404, 429, 500}

\* x-mnx-key-provisioned of a response: missing, empty, or a key
ProvisionedHeaders == {None, "", "k1", "k2"}

\* What one HTTP attempt produces: a response, or a transport failure
\* (httpx.TimeoutException / httpx.NetworkError) with no response at all.
HttpResponses == [net : {"ok"}, status : Statuses, hdr : ProvisionedHeaders,
                  body : Bodies]

NoBody == [kind |-> "empty", dict |-> EmptyDict]

TransportFailures == {[net |-> n, status |-> 0, hdr |-> None, body |-> NoBody] :
                        n \in {"TimeoutException", "NetworkError"}}

Attempts == HttpResponses \cup TransportFailures

\* httpx.Response.is_success
IsSuccess(status) == status >= 200 /\ status < 300

\* ------------------------------------------------------------------------
\* errors.py: the exception classes
\* ------------------------------------------------------------------------
NoError == [type |-> None, message |-> None, status |-> NoInt, code |-> None,
            current |-> NoInt, limit |-> NoInt, cause |-> None]

MnexiumError(message) == [NoError EXCEPT !.type = "MnexiumError", !.message = message]

AuthenticationError(message) ==
    [NoError EXCEPT !.type = "AuthenticationError", !.message = message]

RateLimitError(message, current, limit) ==
    [NoError EXCEPT !.type = "RateLimitError", !.message = message,
                    !.current = current, !.limit = limit]

APIError(message, status, code) ==
    [NoError EXCEPT !.type = "APIError", !.message = message,
                    !.status = status, !.code = code]

NotFoundError(message) ==
    [APIError(message, 404, "not_found") EXCEPT !.type = "NotFoundError"]

\* isinstance(e, APIError): APIError and its subclasses.  RateLimitError and
\* AuthenticationError derive from MnexiumError directly.
IsAPIError(e) == e.type \in {"APIError", "NotFoundError", "ValidationError"}

IsRateLimitError(e) == e.type = "RateLimitError"

\* Exceptions that are not SDK errors
JSONDecodeError == [NoError EXCEPT !.type = "JSONDecodeError"]

HttpxError(kind) == [NoError EXCEPT !.type = kind]

\* ------------------------------------------------------------------------
\* State
\* ------------------------------------------------------------------------
VARIABLES
    api_key,          \* Mnexium._api_key
    max_retries,      \* Mnexium._max_retries
    provisioned_key,  \* Mnexium._provisioned_key
    pc,               \* where the calling thread is: idle, send, sleep,
                      \* returned, raised
    path,             \* the request path of the call in progress
    attempt,          \* loop variable of _request
    request_headers,  \* request_headers["x-mnexium-key"], None when not set
    last_error,       \* local last_error of _request
    response,         \* status and body of the last response received
    handle,           \* the last response object: read, closed, parsed
    outcome,          \* what the call hands to its caller
    attempts,         \* HTTP attempts made by the call in progress
    waits,            \* time.sleep durations of the call in progress
    sent,             \* x-mnexium-key of the last outbound request, and the
                      \* provisioned-key slot at the moment it was sent
    slot_at_call,     \* the provisioned-key slot when the call started
    lastSignal,       \* last non-empty x-mnx-key-provisioned seen in a response
    calls,            \* calls started on this client
    lookup            \* what a lookup method making the call hands to its caller

transportVars == <<api_key, max_retries, provisioned_key, pc, path, attempt,
                   request_headers, last_error, response, handle, outcome,
                   attempts, waits, sent, slot_at_call, lastSignal, calls,
                   lookup>>

\* The request builder: Mnexium.process, Chat.process, Subject.process and
\* chat.completions.create
VARIABLES
    defaults_arg,     \* the defaults argument of Mnexium(...)
    client_defaults,  \* Mnexium._defaults
    provider_configs, \* providers with a ProviderConfig on the client
    chat_options,     \* Chat._options
    call_options,     \* the options object of the call
    call_keys,        \* providers whose key the ChatCompletionOptions carry
    entry,            \* which entry point built the request
    request           \* the request handed to _request / _request_raw

processVars == <<defaults_arg, client_defaults, provider_configs, chat_options,
                 call_options, call_keys, entry, request>>

\* The response normalizer and the provider detector (providers.py)
VARIABLES prov_pc, model_name, detected_provider, raw, extracted

providerVars == <<prov_pc, model_name, detected_provider, raw, extracted>>

\* A stream decoder: StreamResponse (streaming.py) or EventStream (events.py)
VARIABLES decoder, wire, remaining, buffer, current_event, yielded,
          total_content, usage, consumed, stream_pc, closed, iterations,
          reuse_errors,
          text_result   \* the call of StreamResponse.text(): its progress,
                        \* the string returned, the stream's position at the call

\* EventStream._closed and EventStream._connected, and the lines of the read
\* chunk that `for line in lines` has yet to look at
VARIABLES _closed, _connected, chunk_lines

eventVars == <<_closed, _connected, chunk_lines>>

streamVars == <<decoder, wire, remaining, buffer, current_event, yielded,
                total_content, usage, consumed, stream_pc, closed, iterations,
                reuse_errors, text_result, eventVars>>

vars == <<transportVars, processVars, providerVars, streamVars>>

\* Value of a variable that the specification at hand does not use
NotUsed == "unused"

ProcessNotUsed ==
    /\ defaults_arg = NotUsed
    /\ client_defaults = NotUsed
    /\ provider_configs = NotUsed
    /\ chat_options = NotUsed
    /\ call_options = NotUsed
    /\ call_keys = NotUsed
    /\ entry = NotUsed
    /\ request = NotUsed

ProvidersNotUsed ==
    /\ prov_pc = NotUsed
    /\ model_name = NotUsed
    /\ detected_provider = NotUsed
    /\ raw = NotUsed
    /\ extracted = NotUsed

StreamNotUsed ==
    /\ decoder = NotUsed
    /\ wire = NotUsed
    /\ remaining = NotUsed
    /\ buffer = NotUsed
    /\ current_event = NotUsed
    /\ yielded = NotUsed
    /\ text_result = NotUsed
    /\ _closed = NotUsed
    /\ _connected = NotUsed
    /\ chunk_lines = NotUsed
    /\ total_content = NotUsed
    /\ consumed = NotUsed
    /\ stream_pc = NotUsed
    /\ closed = NotUsed
    /\ usage = NotUsed
    /\ iterations = NotUsed
    /\ reuse_errors = NotUsed

NoValue == [kind |-> "none", dict |-> EmptyDict]
Pending == [kind |-> "pending", value |-> NoValue, error |-> NoError]
NoHandle == [read |-> FALSE, closed |-> FALSE, parsed |-> FALSE]
NoResp == [status |-> 0, body |-> NoBody]
NotSent == [key |-> None, slot |-> None]

\* ------------------------------------------------------------------------
\* client.py helpers
\* ------------------------------------------------------------------------

\* Mutant of EffectiveKey: the provisioned key takes priority
EffectiveKeyProvisionedFirst(api, prov) ==
    LET effective_key == IF Truthy(prov) THEN prov ELSE api
    IN  IF Truthy(effective_key) THEN effective_key ELSE None

\* effective_key = self._api_key or self._provisioned_key; the header is set
\* only when the result is truthy.
EffectiveKey(api, prov) ==
    LET effective_key == IF Truthy(api) THEN api ELSE prov
    IN  IF Truthy(effective_key) THEN effective_key ELSE None

\* Mutant of CheckProvisionedKey: the slot is written once only
CheckProvisionedKeyOnce(slot, hdr) ==
    IF Truthy(hdr) /\ ~Truthy(slot) THEN hdr ELSE slot

\* provisioned_key = response.headers.get(...); if provisioned_key: store it
CheckProvisionedKey(slot, hdr) == IF Truthy(hdr) THEN hdr ELSE slot

\* Mutant of HandleErrorResponseDict: 404 is not told apart
HandleErrorResponseDictNo404(status, body) ==
    LET message == IF Truthy(body.message) THEN body.message
                   ELSE IF Truthy(body.error) THEN body.error
                   ELSE "Unknown error"
        code == IF Truthy(body.error) THEN body.error ELSE None
    IN  IF status = 401 THEN AuthenticationError(message)
        ELSE IF status = 429 THEN RateLimitError(message, body.current, body.limit)
        ELSE APIError(message, status, code)

\* _handle_error_response_dict
HandleErrorResponseDict(status, body) ==
    LET message == IF Truthy(body.message) THEN body.message
                   ELSE IF Truthy(body.error) THEN body.error
                   ELSE "Unknown error"
        code == IF Truthy(body.error) THEN body.error ELSE None
    IN  IF status = 401 THEN AuthenticationError(message)
        ELSE IF status = 404 THEN NotFoundError(message)
        ELSE IF status = 429 THEN RateLimitError(message, body.current, body.limit)
        ELSE APIError(message, status, code)

\* response.json() of the buffered path: the decoded object, or the failure
\* to decode (empty text and non-JSON text both fail).
ResponseJson(body) ==
    IF body.kind = "object" THEN [ok |-> TRUE, dict |-> body.dict]
    ELSE [ok |-> FALSE, dict |-> EmptyDict]

\* _handle_error_response: try response.json() except Exception: body = {}
HandleErrorResponse(status, body) ==
    LET parsed == ResponseJson(body)
    IN  HandleErrorResponseDict(status, IF parsed.ok THEN parsed.dict ELSE EmptyDict)

\* Mutant of JsonLoads: the drained body is never decoded
JsonLoadsFails(body) == [ok |-> FALSE, dict |-> EmptyDict]

\* json.loads(body_bytes) of the raw path, on the bytes read from the stream
JsonLoads(body) ==
    IF body.kind = "empty" \/ body.kind = "garbage"
    THEN [ok |-> FALSE, dict |-> EmptyDict]
    ELSE [ok |-> TRUE, dict |-> body.dict]

\* _request_raw on a failure status: read, close, decode or {}, classify
RawErrorResponse(status, body) ==
    LET loaded == JsonLoads(body)
    IN  HandleErrorResponseDict(status, IF loaded.ok THEN loaded.dict ELSE EmptyDict)

\* Mutant of DecodeSuccess: no check for 204 before the body is parsed
DecodeSuccessNo204(status, body) ==
    IF body.kind = "empty" THEN [raised |-> FALSE, value |-> NoValue, parsed |-> FALSE]
    ELSE IF body.kind = "object"
    THEN [raised |-> FALSE, value |-> [kind |-> "json", dict |-> body.dict],
          parsed |-> TRUE]
    ELSE [raised |-> TRUE, value |-> NoValue, parsed |-> TRUE]

\* Lines 486-494 of _request: what a successful response decodes to.
\* parsed tells whether response.json() was called.
DecodeSuccess(status, body) ==
    IF status = 204 THEN [raised |-> FALSE, value |-> NoValue, parsed |-> FALSE]
    ELSE IF body.kind = "empty" THEN [raised |-> FALSE, value |-> NoValue, parsed |-> FALSE]
    ELSE LET j == ResponseJson(body)
         IN  IF j.ok THEN [raised |-> FALSE, value |-> [kind |-> "json", dict |-> j.dict],
                           parsed |-> TRUE]
             ELSE [raised |-> TRUE, value |-> NoValue, parsed |-> TRUE]

\* except (APIError,) as e: which exceptions the retry loop catches
CaughtAsAPIError(e) == IsAPIError(e)

\* Mutant of RaisesAtOnce: the bound on the status is 400 instead of 500
RaisesAtOnceBelow400(e) == ~IsRateLimitError(e) /\ IsAPIError(e) /\ e.status < 400

\* Inside that handler: the branch that re-raises at once
\*   if isinstance(e, RateLimitError): last_error = e
\*   elif isinstance(e, APIError) and e.status < 500: raise
RaisesAtOnce(e) == ~IsRateLimitError(e) /\ IsAPIError(e) /\ e.status < 500

\* Mutant of IsLastAttempt: the loop gives up one attempt early
IsLastAttemptEarly(a, n) == a >= n - 1

\* if attempt == self._max_retries: raise
IsLastAttempt(a, n) == a = n

\* Mutant of Backoff: the wait grows linearly with the attempt index
BackoffLinear(a) == 2 * a

\* time.sleep(2**attempt)
Backoff(a) == 2 ^ a

\* Mutant of TransportError: the httpx exception is re-raised as it is
TransportErrorUnwrapped(kind) == [NoError EXCEPT !.type = kind]

\* raise MnexiumError(f"Request failed: {e}") from e
TransportError(kind) == [MnexiumError("Request failed") EXCEPT !.cause = kind]

\* ------------------------------------------------------------------------
\* Initial state: a freshly constructed client
\* ------------------------------------------------------------------------
ApiKeys == {None, "", "cfg"}

Init ==
    /\ api_key \in ApiKeys
    /\ max_retries \in 0..MaxRetries
    /\ provisioned_key = None
    /\ pc = "idle"
    /\ path = None
    /\ attempt = 0
    /\ request_headers = None
    /\ last_error = NoError
    /\ response = NoResp
    /\ handle = NoHandle
    /\ outcome = Pending
    /\ lookup = Pending
    /\ attempts = 0
    /\ waits = <<>>
    /\ sent = NotSent
    /\ slot_at_call = None
    /\ lastSignal = None
    /\ calls = 0
    /\ ProcessNotUsed
    /\ ProvidersNotUsed
    /\ StreamNotUsed

\* ------------------------------------------------------------------------
\* Buffered path: Mnexium._request
\* ------------------------------------------------------------------------

\* Mutant of LookupResult: the lookup methods swallow every APIError
LookupResultAnyAPIError(o) ==
    IF o.kind = "raise" /\ IsAPIError(o.error)
    THEN [kind |-> "return", value |-> NoValue, error |-> NoError]
    ELSE o

\* The lookup methods (claims get_by_slot, agent state get, records get and
\* get_schema, subject state get, subject claims get):
\*   try: return self._client._request("GET", ...)
\*   except NotFoundError: return None
LookupResult(o) ==
    IF o.kind = "raise" /\ o.error.type = "NotFoundError"
    THEN [kind |-> "return", value |-> NoValue, error |-> NoError]
    ELSE o

\* Lines 452-466: build the headers once, before the loop
Request ==
    /\ pc = "idle"
    /\ calls < MaxCalls
    /\ calls' = calls + 1
    /\ path' = "buffered"
    /\ request_headers' = EffectiveKey(api_key, provisioned_key)
    /\ slot_at_call' = provisioned_key
    /\ attempt' = 0
    /\ last_error' = NoError
    /\ pc' = "send"
    /\ UNCHANGED <<api_key, max_retries, provisioned_key, response, handle,
                   outcome, attempts, waits, sent, lastSignal, lookup>>
    /\ UNCHANGED <<processVars, providerVars, streamVars>>

\* What one iteration of the loop does with the result r of the HTTP attempt:
\* next is "returned", "raised" or "sleep".
RequestStep(r, a, n) ==
    IF r.net # "ok"
    THEN \* except (httpx.TimeoutException, httpx.NetworkError)
         [next |-> IF IsLastAttempt(a, n) THEN "raised" ELSE "sleep",
          value |-> NoValue,
          error |-> IF IsLastAttempt(a, n) THEN TransportError(r.net) ELSE NoError,
          last_error |-> HttpxError(r.net), parsed |-> FALSE]
    ELSE IF ~IsSuccess(r.status)
    THEN LET e == HandleErrorResponse(r.status, r.body)
         IN  IF ~CaughtAsAPIError(e) \/ RaisesAtOnce(e)
             THEN [next |-> "raised", value |-> NoValue, error |-> e,
                   last_error |-> NoError, parsed |-> TRUE]
             ELSE [next |-> IF IsLastAttempt(a, n) THEN "raised" ELSE "sleep",
                   value |-> NoValue,
                   error |-> IF IsLastAttempt(a, n) THEN e ELSE NoError,
                   last_error |-> e, parsed |-> TRUE]
    ELSE LET d == DecodeSuccess(r.status, r.body)
         IN  [next |-> IF d.raised THEN "raised" ELSE "returned",
              value |-> d.value,
              error |-> IF d.raised THEN JSONDecodeError ELSE NoError,
              last_error |-> NoError, parsed |-> d.parsed]

\* Lines 468-516: one iteration of the retry loop up to its return, raise or
\* sleep.  r is what the HTTP attempt produced.
Attempt(r) ==
    /\ pc = "send"
    /\ path = "buffered"
    /\ LET s == RequestStep(r, attempt, max_retries)
       IN  /\ attempts' = attempts + 1
           /\ sent' = [key |-> request_headers, slot |-> provisioned_key]
           /\ provisioned_key' = IF r.net = "ok"
                                 THEN CheckProvisionedKey(provisioned_key, r.hdr)
                                 ELSE provisioned_key
           /\ lastSignal' = IF r.net = "ok" /\ r.hdr \notin {None, ""}
                            THEN r.hdr ELSE lastSignal
           /\ response' = IF r.net = "ok" THEN [status |-> r.status, body |-> r.body]
                          ELSE NoResp
           /\ handle' = IF r.net = "ok"
                        THEN [read |-> TRUE, closed |-> TRUE, parsed |-> s.parsed]
                        ELSE NoHandle
           /\ last_error' = IF s.last_error # NoError THEN s.last_error ELSE last_error
           /\ pc' = s.next
           /\ outcome' = IF s.next = "returned"
                         THEN [kind |-> "return", value |-> s.value, error |-> NoError]
                         ELSE IF s.next = "raised"
                         THEN [kind |-> "raise", value |-> NoValue, error |-> s.error]
                         ELSE outcome
           /\ lookup' = IF s.next \in {"returned", "raised"}
                        THEN LookupResult(outcome')
                        ELSE lookup
    /\ UNCHANGED <<api_key, max_retries, path, attempt, request_headers, waits,
                   slot_at_call, calls>>
    /\ UNCHANGED <<processVars, providerVars, streamVars>>

\* time.sleep(2**attempt), then the next iteration
Sleep ==
    /\ pc = "sleep"
    /\ waits' = Append(waits, Backoff(attempt))
    /\ attempt' = attempt + 1
    /\ pc' = "send"
    /\ UNCHANGED <<api_key, max_retries, provisioned_key, path, request_headers,
                   last_error, response, handle, outcome, attempts, sent,
                   slot_at_call, lastSignal, calls, lookup>>
    /\ UNCHANGED <<processVars, providerVars, streamVars>>

\* ------------------------------------------------------------------------
\* Raw path: Mnexium._request_raw
\* ------------------------------------------------------------------------

\* Mutant of RawTransportError: the failure is wrapped as in _request
RawTransportErrorWrapped(kind) ==
    [MnexiumError("Request failed") EXCEPT !.cause = kind]

\* A transport failure of send(): nothing in _request_raw catches it
RawTransportError(kind) == HttpxError(kind)

\* What _request_raw does with the result r of its one send()
RequestRawStep(r) ==
    IF r.net # "ok"
    THEN [next |-> "raised", value |-> NoValue, error |-> RawTransportError(r.net),
          handle |-> NoHandle]
    ELSE IF ~IsSuccess(r.status)
    THEN [next |-> "raised", value |-> NoValue,
          error |-> RawErrorResponse(r.status, r.body),
          handle |-> [read |-> TRUE, closed |-> TRUE, parsed |-> TRUE]]
    ELSE [next |-> "returned", value |-> [kind |-> "handle", dict |-> EmptyDict],
          error |-> NoError, handle |-> NoHandle]

\* Lines 528-567: the whole of _request_raw
RequestRaw(r) ==
    /\ pc = "idle"
    /\ calls < MaxCalls
    /\ calls' = calls + 1
    /\ path' = "raw"
    /\ request_headers' = EffectiveKey(api_key, provisioned_key)
    /\ slot_at_call' = provisioned_key
    /\ sent' = [key |-> EffectiveKey(api_key, provisioned_key), slot |-> provisioned_key]
    /\ attempts' = attempts + 1
    /\ provisioned_key' = IF r.net = "ok"
                          THEN CheckProvisionedKey(provisioned_key, r.hdr)
                          ELSE provisioned_key
    /\ lastSignal' = IF r.net = "ok" /\ r.hdr \notin {None, ""}
                     THEN r.hdr ELSE lastSignal
    /\ response' = IF r.net = "ok" THEN [status |-> r.status, body |-> r.body]
                   ELSE NoResp
    /\ LET s == RequestRawStep(r)
       IN  /\ handle' = s.handle
           /\ pc' = s.next
           /\ outcome' = IF s.next = "returned"
                         THEN [kind |-> "return", value |-> s.value, error |-> NoError]
                         ELSE [kind |-> "raise", value |-> NoValue, error |-> s.error]
    /\ UNCHANGED <<api_key, max_retries, attempt, last_error, waits, lookup>>
    /\ UNCHANGED <<processVars, providerVars, streamVars>>

\* The caller receives the result; the client is ready for the next call
Deliver ==
    /\ pc \in {"returned", "raised"}
    /\ pc' = "idle"
    /\ path' = None
    /\ attempt' = 0
    /\ request_headers' = None
    /\ last_error' = NoError
    /\ response' = NoResp
    /\ handle' = NoHandle
    /\ outcome' = Pending
    /\ lookup' = Pending
    /\ attempts' = 0
    /\ waits' = <<>>
    /\ sent' = NotSent
    /\ slot_at_call' = None
    /\ UNCHANGED <<api_key, max_retries, provisioned_key, lastSignal, calls>>
    /\ UNCHANGED <<processVars, providerVars, streamVars>>

Next ==
    \/ Request
    \/ \E r \in Attempts : Attempt(r)
    \/ Sleep
    \/ \E r \in Attempts : RequestRaw(r)
    \/ Deliver

Spec == Init /\ [][Next]_vars

TypeOK ==
    /\ api_key \in ApiKeys
    /\ max_retries \in 0..MaxRetries
    /\ provisioned_key \in {None, "k1", "k2"}
    /\ pc \in {"idle", "send", "sleep", "returned", "raised"}
    /\ attempts \in 0..(MaxRetries + 1)

\* ------------------------------------------------------------------------
\* Properties of the transport core
\* ------------------------------------------------------------------------

\* The call in progress has received a response (not a transport failure)
\* on its last attempt
GotResponse == attempts > 0 /\ response # NoResp

\* The last attempt of the call in progress failed at network level
NetFailed == attempts > 0 /\ response = NoResp

ClientErrorStatuses == {st \in Statuses : st >= 400 /\ st < 500 /\ st # 429}

C2_RateLimitRetried ==
    (path = "buffered" /\ GotResponse /\ response.status = 429 /\ pc = "raised") =>
        attempts = max_retries + 1

C4_NetworkFailureRetried ==
    path = "buffered" =>
        /\ NetFailed =>
              /\ pc \in {"sleep", "send", "raised"}
              /\ pc = "raised" <=> attempts = max_retries + 1
              /\ pc = "raised" =>
                    /\ outcome.error.type = "MnexiumError"
                    /\ outcome.error.status = NoInt
                    /\ outcome.error.code = None
        /\ outcome.error.type \notin {"TimeoutException", "NetworkError"}
        /\ outcome.error.type = "MnexiumError" =>
              NetFailed /\ attempts = max_retries + 1
        /\ pc = "returned" => outcome.kind = "return" /\ outcome.error = NoError

C4_Witness ==
    /\ path = "buffered" /\ max_retries = 2 /\ attempts = 3 /\ pc = "raised"
    /\ NetFailed /\ outcome.error.type = "MnexiumError"

C4_WitnessRecovered ==
    /\ path = "buffered" /\ attempts = 3 /\ pc = "returned"
    /\ last_error.type = "TimeoutException"

RetryableStatuses == {st \in Statuses : st = 429 \/ st >= 500}

C6_ProvisionedKeyLastSignal == provisioned_key = lastSignal

C6_Witness ==
    /\ slot_at_call = "k1" /\ provisioned_key = "k2"
    /\ GotResponse /\ ~IsSuccess(response.status)

\* The x-mnexium-key header the claim C7 expects, given the provisioned key
\* to fall back to
ExpectedKey(slot) ==
    IF api_key \notin {None, ""} THEN api_key
    ELSE IF slot \notin {None, ""} THEN slot
    ELSE None

\* C7 as stated: every outbound request carries the configured key, else the
\* key provisioned by any prior response, else no key.
C7_KeyOfEveryRequest ==
    attempts > 0 => sent.key = ExpectedKey(sent.slot)

\* C7 as amended: every outbound request carries the configured key, else the
\* key that was provisioned when its call began, else no key; a provisioned
\* key never replaces a configured one.
C7_KeyOfCallStart ==
    attempts > 0 =>
        /\ sent.key = ExpectedKey(slot_at_call)
        /\ sent.key = request_headers
        /\ api_key = "cfg" => sent.key = "cfg"

C7_Witness ==
    /\ attempts > 0 /\ api_key = None /\ slot_at_call = "k1" /\ sent.key = "k1"

C7_WitnessConfigured ==
    /\ attempts > 0 /\ api_key = "cfg" /\ slot_at_call = "k1" /\ sent.key = "cfg"

\* C8: a successful response with status 204 or with an empty body makes
\* _request return None without parsing the body; a successful response with
\* a JSON body returns the decoded body.
C8_NoContent ==
    (path = "buffered" /\ GotResponse /\ IsSuccess(response.status)) =>
        /\ (response.status = 204 \/ response.body.kind = "empty") =>
              /\ pc = "returned"
              /\ outcome.kind = "return"
              /\ outcome.value = NoValue
              /\ ~handle.parsed
        /\ (response.status # 204 /\ response.body.kind = "object") =>
              /\ pc = "returned"
              /\ handle.parsed
              /\ outcome.value = [kind |-> "json", dict |-> response.body.dict]

C8_Witness ==
    /\ path = "buffered" /\ pc = "returned" /\ GotResponse
    /\ response.status = 204 /\ response.body.kind = "garbage"

\* The error the last failure response was classified as
Classified == IF pc = "raised" THEN outcome.error ELSE last_error

C10_RawErrorDrained ==
    (path = "raw" /\ GotResponse /\ ~IsSuccess(response.status)) =>
        /\ pc = "raised"
        /\ handle.read
        /\ handle.closed
        /\ outcome.kind = "raise"
        /\ outcome.value = NoValue
        /\ outcome.error = HandleErrorResponse(response.status, response.body)

C10_Witness ==
    /\ path = "raw" /\ pc = "raised" /\ GotResponse /\ response.status = 404
    /\ response.body.kind = "object" /\ response.body.dict.message = "msg"
    /\ outcome.error.message = "msg" /\ handle.closed

\* ========================================================================
\* Provider detection (src/mnexium/providers.py)
\* ========================================================================

\* Strings that the code searches or trims are sequences of characters
UpperCase == <<"A", "B", "C", "D", "E", "F", "G", "H", "I", "J", "K", "L", "M",
               "N", "O", "P", "Q", "R", "S", "T", "U", "V", "W", "X", "Y", "Z">>
LowerCase == <<"a", "b", "c", "d", "e", "f", "g", "h", "i", "j", "k", "l", "m",
               "n", "o", "p", "q", "r", "s", "t", "u", "v", "w", "x", "y", "z">>

\* str.lower()
LowerChar(c) ==
    IF \E i \in DOMAIN UpperCase : UpperCase[i] = c
    THEN LowerCase[CHOOSE i \in DOMAIN UpperCase : UpperCase[i] = c]
    ELSE c

ToLower(str) == [i \in DOMAIN str |-> LowerChar(str[i])]

\* needle in hay
Contains(hay, needle) ==
    \E i \in 0..(Len(hay) - Len(needle)) :
        SubSeq(hay, i + 1, i + Len(needle)) = needle

\* The keywords detect_provider looks for
Kw ==
    [claude |-> <<"c", "l", "a", "u", "d", "e">>,
     gemini |-> <<"g", "e", "m", "i", "n", "i">>,
     palm |-> <<"p", "a", "l", "m">>,
     gpt |-> <<"g", "p", "t">>,
     o1 |-> <<"o", "1">>,
     o3 |-> <<"o", "3">>,
     davinci |-> <<"d", "a", "v", "i", "n", "c", "i">>]

\* Mutant of DetectProvider: the openai keywords are tried first
DetectProviderOpenAIFirst(model) ==
    LET lower == ToLower(model)
    IN  IF Contains(lower, Kw.gpt) \/ Contains(lower, Kw.o1) \/ Contains(lower, Kw.o3)
           \/ Contains(lower, Kw.davinci) THEN "openai"
        ELSE IF Contains(lower, Kw.claude) THEN "anthropic"
        ELSE IF Contains(lower, Kw.gemini) \/ Contains(lower, Kw.palm) THEN "google"
        ELSE None

\* detect_provider
DetectProvider(model) ==
    LET lower == ToLower(model)
    IN  IF Contains(lower, Kw.claude) THEN "anthropic"
        ELSE IF Contains(lower, Kw.gemini) \/ Contains(lower, Kw.palm) THEN "google"
        ELSE IF Contains(lower, Kw.gpt) \/ Contains(lower, Kw.o1) \/ Contains(lower, Kw.o3)
                \/ Contains(lower, Kw.davinci) THEN "openai"
        ELSE None

\* ========================================================================
\* The request builder (src/mnexium/client.py, src/mnexium/chat.py,
\* src/mnexium/subject.py)
\* ========================================================================

Providers == {"openai", "anthropic", "google"}

ProviderHeader(p) ==
    CASE p = "openai" -> "x-openai-key"
      [] p = "anthropic" -> "x-anthropic-key"
      [] p = "google" -> "x-google-key"

\* The characters of the model names the builder is given
ModelChars(m) ==
    CASE m = "gpt-4o-mini" -> <<"g", "p", "t", "-", "4", "o", "-", "m", "i", "n", "i">>
      [] m = "claude-3" -> <<"c", "l", "a", "u", "d", "e", "-", "3">>
      [] m = "gemini-pro" -> <<"g", "e", "m", "i", "n", "i", "-", "p", "r", "o">>
      [] m = "mistral-large" ->
            <<"m", "i", "s", "t", "r", "a", "l", "-", "l", "a", "r", "g", "e">>
      [] OTHER -> <<>>

\* Python values of the option fields.  Booleans are written "True" and
\* "False", an empty dict "{}".
\* A memory_policy value is None, a bool or a string of characters.
MPNone == [t |-> "none", b |-> FALSE, s |-> <<>>]
MPBool(b) == [t |-> "bool", b |-> b, s |-> <<>>]
MPStr(str) == [t |-> "str", b |-> FALSE, s |-> str]
MPOmitted == [t |-> "omitted", b |-> FALSE, s |-> <<>>]

MemoryPolicies ==
    {MPNone, MPBool(FALSE), MPBool(TRUE), MPStr(<<>>), MPStr(<<" ", "\t">>),
     MPStr(<<" ", "m", "1", " ">>), MPStr(<<"m", "2">>)}

Whitespace == {" ", "\t", "\n", "\r"}

\* str.strip()
RECURSIVE LStrip(_)
LStrip(str) ==
    IF str # <<>> /\ Head(str) \in Whitespace THEN LStrip(Tail(str)) ELSE str

RECURSIVE RStrip(_)
RStrip(str) ==
    IF str # <<>> /\ str[Len(str)] \in Whitespace
    THEN RStrip(SubSeq(str, 1, Len(str) - 1)) ELSE str

Strip(str) == RStrip(LStrip(str))

\* Mutant of NormalizeMemoryPolicy: the policy id is not trimmed
NormalizeMemoryPolicyNoStrip(value) ==
    IF value.t = "bool" /\ value.b = FALSE THEN MPBool(FALSE)
    ELSE IF value.t = "str" /\ value.s # <<>> THEN MPStr(value.s)
    ELSE MPNone

\* _normalize_memory_policy
NormalizeMemoryPolicy(value) ==
    IF value.t = "bool" /\ value.b = FALSE THEN MPBool(FALSE)
    ELSE IF value.t = "str"
    THEN LET policy_id == Strip(value.s)
         IN  IF policy_id # <<>> THEN MPStr(policy_id) ELSE MPNone
    ELSE MPNone

NoHeader == [present |-> FALSE, s |-> <<>>]

\* _apply_memory_policy_header: the x-mnx-memory-policy entry of the headers
ApplyMemoryPolicyHeader(memory_policy) ==
    LET normalized == NormalizeMemoryPolicy(memory_policy)
    IN  IF normalized.t = "bool" /\ normalized.b = FALSE
        THEN [present |-> TRUE, s |-> <<"f", "a", "l", "s", "e">>]
        ELSE IF normalized.t = "str" THEN [present |-> TRUE, s |-> normalized.s]
        ELSE NoHeader

\* _build_records_payload: keys whose value is None are dropped
BuildRecordsPayload(records) ==
    IF records = None THEN None
    ELSE IF records = "{recall:None}" THEN "{}"
    ELSE records

\* Truthiness of a Python value
PyTruthy(v) == v \notin {None, "", "{}", "False", "0", "0.0"}

BoolFields == {"log", "learn", "recall", "profile", "history", "summarize",
               "system_prompt", "regenerate_key"}

\* The fields Mnexium.process reads from its options and from _defaults
ProcFields == {"model", "subject_id", "chat_id", "log", "learn", "recall",
               "profile", "history", "summarize", "system_prompt", "metadata",
               "memory_policy", "max_tokens", "temperature", "regenerate_key",
               "records"}

\* types.py ChatOptions
ChatLayerFields == {"chat_id", "model", "log", "learn", "recall", "profile",
                    "history", "summarize", "system_prompt", "max_tokens",
                    "temperature", "metadata"}

CallFields == ProcFields \cup {"stream"}

Domain(f) ==
    CASE f = "model" ->
            {None, "", "gpt-4o-mini", "claude-3", "gemini-pro", "mistral-large"}
      [] f \in BoolFields \cup {"stream"} -> {None, "True", "False"}
      [] f = "metadata" -> {None, "{}", "{a}", "{b}"}
      [] f = "max_tokens" -> {None, "0", "256"}
      [] f = "temperature" -> {None, "0.0", "0.7"}
      [] f \in {"subject_id", "chat_id"} -> {None, "id1", "id2"}
      [] f = "records" -> {None, "{}", "{recall:None}", "{recall}"}
      [] f = "memory_policy" -> MemoryPolicies

Absent(f) == IF f = "memory_policy" THEN MPNone ELSE None

\* The value the other fields take at the layer that sets them
Canon(f) ==
    CASE f = "model" -> "claude-3"
      [] f \in BoolFields -> "True"
      [] f = "metadata" -> "{a}"
      [] f = "max_tokens" -> "256"
      [] f = "temperature" -> "0.7"
      [] f \in {"subject_id", "chat_id"} -> "id1"
      [] f = "records" -> "{recall}"
      [] f = "memory_policy" -> MPStr(<<"m", "2">>)

\* Mnexium.__init__: self._defaults
MnexiumInit(d) ==
    [f \in ProcFields |->
        CASE f = "model" -> IF PyTruthy(d.model) THEN d.model ELSE "gpt-4o-mini"
          [] f \in {"log", "learn", "history", "system_prompt"} ->
                IF d[f] # None THEN d[f] ELSE "True"
          [] f \in {"recall", "summarize"} -> IF d[f] # None THEN d[f] ELSE "False"
          [] OTHER -> d[f]]

\* Mutant of Val: the hardcoded fallback is not applied
ValNoFallback(opt, default, fallback) == IF opt # None THEN opt ELSE default

\* _val of Mnexium.process
Val(opt, default, fallback) ==
    IF opt # None THEN opt ELSE IF default # None THEN default ELSE fallback

\* _val on a memory_policy value
ValMemoryPolicy(opt, default) ==
    IF opt.t # "none" THEN opt ELSE default

\* Mutant of ProviderHeaders: the anthropic configuration is the first fallback
ProviderHeadersAnthropicFirst(provider, cfgs) ==
    IF provider = "anthropic" /\ "anthropic" \in cfgs THEN {"x-anthropic-key"}
    ELSE IF provider = "google" /\ "google" \in cfgs THEN {"x-google-key"}
    ELSE IF "anthropic" \in cfgs THEN {"x-anthropic-key"}
    ELSE IF "openai" \in cfgs THEN {"x-openai-key"}
    ELSE IF "google" \in cfgs THEN {"x-google-key"}
    ELSE {}

\* Lines 295-308 of Mnexium.process: the provider key headers attached
ProviderHeaders(provider, cfgs) ==
    IF provider = "anthropic" /\ "anthropic" \in cfgs THEN {"x-anthropic-key"}
    ELSE IF provider = "google" /\ "google" \in cfgs THEN {"x-google-key"}
    ELSE IF "openai" \in cfgs THEN {"x-openai-key"}
    ELSE IF "anthropic" \in cfgs THEN {"x-anthropic-key"}
    ELSE IF "google" \in cfgs THEN {"x-google-key"}
    ELSE {}

\* A key that is not in a request body
Omitted == "<omitted>"

MnxKeys == {"subject_id", "chat_id", "log", "learn", "recall", "profile",
            "history", "summarize", "system_prompt", "metadata",
            "memory_policy", "regenerate_key", "records"}

\* Mnexium.process up to the call of _request / _request_raw: the request
\* built from the options o, the client defaults d and the configurations
ProcessRequest(o, d, cfgs) ==
    LET model == Val(o.model, d.model, "gpt-4o-mini")
        metadata == IF PyTruthy(o.metadata) THEN o.metadata ELSE d.metadata
        memory_policy == NormalizeMemoryPolicy(
                            ValMemoryPolicy(o.memory_policy, d.memory_policy))
        max_tokens == Val(o.max_tokens, d.max_tokens, None)
        temperature == IF o.temperature # None THEN o.temperature ELSE d.temperature
        records_config == IF o.records # None THEN o.records ELSE d.records
        records_payload == BuildRecordsPayload(records_config)
        provider == DetectProvider(ModelChars(model))
    IN  [model |-> model,
         stream |-> PyTruthy(o.stream),
         has_mnx |-> TRUE,
         mnx |-> [k \in MnxKeys |->
                    CASE k = "subject_id" -> Val(o.subject_id, d.subject_id, None)
                      [] k = "chat_id" -> Val(o.chat_id, d.chat_id, None)
                      [] k \in {"log", "learn", "history", "system_prompt"} ->
                            Val(o[k], d[k], "True")
                      [] k \in {"recall", "profile", "summarize", "regenerate_key"} ->
                            Val(o[k], d[k], "False")
                      [] k = "metadata" -> metadata
                      [] k = "memory_policy" ->
                            IF memory_policy.t # "none" THEN memory_policy
                            ELSE MPOmitted
                      [] k = "records" ->
                            IF records_payload # None THEN records_payload
                            ELSE Omitted],
         max_tokens |-> IF max_tokens # None THEN max_tokens ELSE Omitted,
         temperature |-> IF temperature # None THEN temperature ELSE Omitted,
         provider_headers |-> ProviderHeaders(provider, cfgs),
         memory_policy_header |-> ApplyMemoryPolicyHeader(memory_policy),
         via |-> IF PyTruthy(o.stream) THEN "raw" ELSE "buffered"]

\* The subject a Chat or a Subject handle is bound to

\* Chat.__init__: self.id = opts.chat_id or str(uuid.uuid4())
ChatId(opts) == IF PyTruthy(opts.chat_id) THEN opts.chat_id ELSE "uuid4"

\* Chat.process: the ProcessOptions it hands to Mnexium.process
ChatProcessOptions(opts, chat) ==
    [f \in CallFields |->
        CASE f = "chat_id" -> ChatId(chat)
          [] f = "subject_id" -> "subj"
          [] f \in ChatLayerFields \ {"chat_id"} ->
                IF opts[f] # None THEN opts[f] ELSE chat[f]
          [] f \in {"stream", "regenerate_key", "records"} -> opts[f]
          [] f = "memory_policy" -> MPNone]

\* Subject.process: opts.subject_id = self.id
SubjectProcessOptions(opts) == [opts EXCEPT !["subject_id"] = "subj"]

\* The mnx keys _ChatCompletionsResource.create may send
CreateMnxKeys == {"subject_id", "chat_id", "learn", "recall", "history", "log",
                  "system_prompt", "metadata", "memory_policy",
                  "regenerate_key", "records"}

\* _ChatCompletionsResource.create up to the call of the transport
\* (top_p and stop, which no option here sets, are left out)
CreateRequest(o, keys) ==
    LET memory_policy == NormalizeMemoryPolicy(o.memory_policy)
        records_payload == BuildRecordsPayload(o.records)
    IN  [model |-> o.model,
         stream |-> PyTruthy(o.stream),
         has_mnx |-> TRUE,
         mnx |-> [k \in MnxKeys |->
                    IF k \notin CreateMnxKeys THEN Omitted
                    ELSE IF k = "memory_policy"
                    THEN (IF memory_policy.t # "none" THEN memory_policy ELSE MPOmitted)
                    ELSE IF k = "records"
                    THEN (IF records_payload # None THEN records_payload ELSE Omitted)
                    ELSE IF o[k] # None THEN o[k] ELSE Omitted],
         max_tokens |-> IF o.max_tokens # None THEN o.max_tokens ELSE Omitted,
         temperature |-> IF o.temperature # None THEN o.temperature ELSE Omitted,
         provider_headers |->
            IF "openai" \in keys THEN {"x-openai-key"}
            ELSE IF "anthropic" \in keys THEN {"x-anthropic-key"}
            ELSE IF "google" \in keys THEN {"x-google-key"}
            ELSE {},
         memory_policy_header |-> ApplyMemoryPolicyHeader(memory_policy),
         via |-> IF PyTruthy(o.stream) THEN "raw" ELSE "buffered"]

TransportNotUsed ==
    /\ api_key = None
    /\ max_retries = 0
    /\ provisioned_key = None
    /\ pc = "idle"
    /\ path = None
    /\ attempt = 0
    /\ request_headers = None
    /\ last_error = NoError
    /\ response = NoResp
    /\ handle = NoHandle
    /\ outcome = Pending
    /\ lookup = Pending
    /\ attempts = 0
    /\ waits = <<>>
    /\ sent = NotSent
    /\ slot_at_call = None
    /\ lastSignal = None
    /\ calls = 0

\* Which layer sets the fields other than the one under study


\* A client, a chat and the options of one call.  One field takes every
\* combination of values over the three layers; the other fields are unset or
\* set at one layer.
InitProcess ==
    /\ TransportNotUsed
    /\ ProvidersNotUsed
    /\ StreamNotUsed
    /\ \E f \in ProcFields, bg \in {"none", "defaults", "chat", "call"}, st \in {None, "True"} :
       \E vd \in Domain(f), vp \in Domain(f),
          vc \in (IF f \in ChatLayerFields THEN Domain(f) ELSE {Absent(f)}) :
        /\ defaults_arg = [g \in ProcFields |->
                             IF g = f THEN vd
                             ELSE IF bg = "defaults" THEN Canon(g) ELSE Absent(g)]
        /\ chat_options = [g \in ChatLayerFields |->
                             IF g = f THEN vc
                             ELSE IF bg = "chat" THEN Canon(g) ELSE Absent(g)]
        /\ call_options = [g \in CallFields |->
                             IF g = "stream" THEN st
                             ELSE IF g = f THEN vp
                             ELSE IF bg = "call" THEN Canon(g) ELSE Absent(g)]
    /\ client_defaults = MnexiumInit(defaults_arg)
    /\ provider_configs \in SUBSET Providers
    /\ call_keys \in {{}, {"anthropic", "google"}}
    /\ entry = None
    /\ request = "none"

\* mnx.process(options)
Process ==
    /\ entry = None
    /\ entry' = "process"
    /\ request' = ProcessRequest(call_options, client_defaults, provider_configs)
    /\ UNCHANGED <<defaults_arg, client_defaults, provider_configs, chat_options,
                   call_options, call_keys>>
    /\ UNCHANGED <<transportVars, providerVars, streamVars>>

\* chat.process(options), chat created with chat_options
ChatProcess ==
    /\ entry = None
    /\ entry' = "chat.process"
    /\ request' = ProcessRequest(ChatProcessOptions(call_options, chat_options),
                                 client_defaults, provider_configs)
    /\ UNCHANGED <<defaults_arg, client_defaults, provider_configs, chat_options,
                   call_options, call_keys>>
    /\ UNCHANGED <<transportVars, providerVars, streamVars>>

\* subject.process(options)
SubjectProcess ==
    /\ entry = None
    /\ entry' = "subject.process"
    /\ request' = ProcessRequest(SubjectProcessOptions(call_options),
                                 client_defaults, provider_configs)
    /\ UNCHANGED <<defaults_arg, client_defaults, provider_configs, chat_options,
                   call_options, call_keys>>
    /\ UNCHANGED <<transportVars, providerVars, streamVars>>

\* mnx.chat.completions.create(options); model is a required field
CompletionsCreate ==
    /\ entry = None
    /\ call_options.model # None
    /\ entry' = "completions.create"
    /\ request' = CreateRequest(call_options, call_keys)
    /\ UNCHANGED <<defaults_arg, client_defaults, provider_configs, chat_options,
                   call_options, call_keys>>
    /\ UNCHANGED <<transportVars, providerVars, streamVars>>

NextProcess ==
    \/ Process
    \/ ChatProcess
    \/ SubjectProcess
    \/ CompletionsCreate

SpecProcess == InitProcess /\ [][NextProcess]_vars

\* ------------------------------------------------------------------------
\* Claims about the request builder
\* ------------------------------------------------------------------------

ProcessEntries == {"process", "chat.process", "subject.process"}

LayeredFields == {"model", "log", "learn", "recall", "profile", "history",
                  "summarize", "system_prompt", "max_tokens", "temperature",
                  "metadata"}

HardcodedFallback(f) ==
    CASE f = "model" -> "gpt-4o-mini"
      [] f \in {"log", "learn", "history", "system_prompt"} -> "True"
      [] f \in {"recall", "summarize", "profile"} -> "False"
      [] OTHER -> None

\* The value of field f in the request, None when the request has no such key
RequestValue(f) ==
    IF f = "model" THEN request.model
    ELSE IF f \in {"max_tokens", "temperature"}
    THEN (IF request[f] = Omitted THEN None ELSE request[f])
    ELSE IF request.mnx[f] = Omitted THEN None ELSE request.mnx[f]

FirstPresent(call, chat, default, fallback) ==
    IF call # None THEN call
    ELSE IF chat # None THEN chat
    ELSE IF default # None THEN default
    ELSE fallback

\* C11: for every three-layer field, the request built by Chat.process carries
\* the per-call value if one is given, else the chat option, else the client
\* default, else the hardcoded fallback: a value set at an inner layer always
\* wins over the outer layers.
C11_InnerLayerWins ==
    entry = "chat.process" =>
        \A f \in LayeredFields :
            RequestValue(f) = FirstPresent(call_options[f], chat_options[f],
                                           defaults_arg[f], HardcodedFallback(f))

\* C12: the request built by process() always has a concrete, non-null model,
\* log, learn, recall, history, summarize and profile; with no layer setting
\* them they are "gpt-4o-mini", true, true, false, true, false and false.
C12_ConcreteValues ==
    entry \in ProcessEntries =>
        /\ request.model \notin {None, Omitted}
        /\ \A f \in {"log", "learn", "recall", "history", "summarize", "profile"} :
                request.mnx[f] \in {"True", "False"}
        /\ \A f \in {"model", "log", "learn", "recall", "history", "summarize",
                     "profile"} :
                (/\ call_options[f] = None
                 /\ defaults_arg[f] = None
                 /\ entry = "chat.process" => chat_options[f] = None)
                => RequestValue(f) = HardcodedFallback(f)

C12_Witness ==
    /\ entry = "process"
    /\ \A f \in ProcFields : defaults_arg[f] = Absent(f) /\ call_options[f] = Absent(f)
    /\ request.model = "gpt-4o-mini"
    /\ request.mnx["log"] = "True"
    /\ request.mnx["profile"] = "False"

\* The memory_policy value that reaches the entry point of the request
MemoryPolicyInput ==
    CASE entry = "completions.create" -> call_options.memory_policy
      [] entry = "chat.process" -> defaults_arg.memory_policy
      [] OTHER -> IF call_options.memory_policy.t # "none"
                  THEN call_options.memory_policy
                  ELSE defaults_arg.memory_policy

AllWhitespace(str) == \A i \in DOMAIN str : str[i] \in Whitespace

\* inner is outer without its leading and trailing whitespace
IsTrimOf(inner, outer) ==
    /\ inner # <<>>
    /\ inner[1] \notin Whitespace
    /\ inner[Len(inner)] \notin Whitespace
    /\ \E i \in 0..Len(outer) :
        /\ i + Len(inner) <= Len(outer)
        /\ SubSeq(outer, i + 1, i + Len(inner)) = inner
        /\ AllWhitespace(SubSeq(outer, 1, i))
        /\ AllWhitespace(SubSeq(outer, i + Len(inner) + 1, Len(outer)))

\* C13: in process() and in chat.completions.create(), streaming or not, the
\* memory policy is absent, false or a non-empty trimmed string, and the
\* x-mnx-memory-policy header mirrors the body: False gives header "false" and
\* body false, a string gives its trimmed form in both, an empty or
\* whitespace-only string or no value gives neither.
C13_MemoryPolicyNormalized ==
    entry # None =>
        LET input == MemoryPolicyInput
            body == request.mnx["memory_policy"]
            header == request.memory_policy_header
        IN  IF input.t = "bool" /\ input.b = FALSE
            THEN /\ body = MPBool(FALSE)
                 /\ header = [present |-> TRUE, s |-> <<"f", "a", "l", "s", "e">>]
            ELSE IF input.t = "str" /\ ~AllWhitespace(input.s)
            THEN /\ body.t = "str"
                 /\ IsTrimOf(body.s, input.s)
                 /\ header = [present |-> TRUE, s |-> body.s]
            ELSE /\ body = MPOmitted
                 /\ ~header.present

C13_Witness ==
    /\ entry = "completions.create"
    /\ request.stream
    /\ call_options.memory_policy = MPStr(<<" ", "m", "1", " ">>)
    /\ request.mnx["memory_policy"] = MPStr(<<"m", "1">>)
    /\ request.memory_policy_header = [present |-> TRUE, s |-> <<"m", "1">>]

\* C14: every chat request body contains the mnx block, and no optional mnx
\* sub-field is sent as an explicit null when it is unset: it is left out.
C14_NoExplicitNull ==
    entry # None =>
        /\ request.has_mnx
        /\ \A k \in MnxKeys :
            IF k = "memory_policy" THEN request.mnx[k].t # "none"
            ELSE request.mnx[k] # None

\* The provider a model name of the builder's inputs belongs to
ProviderOfModel(m) ==
    CASE m = "claude-3" -> "anthropic"
      [] m = "gemini-pro" -> "google"
      [] m = "gpt-4o-mini" -> "openai"
      [] OTHER -> None

\* C15: process() attaches at most one provider key header: the detected
\* provider's if its configuration exists, else openai's, else anthropic's,
\* else google's, else none.
C15_OneProviderKey ==
    entry \in ProcessEntries =>
        LET detected == ProviderOfModel(request.model)
            expected == IF detected \in provider_configs THEN {ProviderHeader(detected)}
                        ELSE IF "openai" \in provider_configs THEN {"x-openai-key"}
                        ELSE IF "anthropic" \in provider_configs THEN {"x-anthropic-key"}
                        ELSE IF "google" \in provider_configs THEN {"x-google-key"}
                        ELSE {}
        IN  /\ request.provider_headers = expected
            /\ Cardinality(request.provider_headers) <= 1

C15_Witness ==
    /\ entry = "process"
    /\ request.model = "gemini-pro"
    /\ provider_configs = {"openai", "anthropic"}
    /\ request.provider_headers = {"x-openai-key"}

\* ========================================================================
\* detect_provider and extract_response_content on their own inputs
\* (src/mnexium/providers.py, src/mnexium/client.py lines 357-365)
\* ========================================================================

\* Longest model name, in tokens
MaxNameTokens == 3

\* Longest list of content blocks or of parts
MaxBlocks == 2

NameTokens ==
    {Kw.claude, Kw.palm, Kw.gpt, Kw.davinci,
     <<"C", "l", "a", "u", "d", "e">>, <<"G", "E", "M", "I", "N", "I">>,
     <<"o">>, <<"1">>, <<"O", "3">>, <<"-">>, <<"4">>,
     <<"m", "i", "s", "t", "r", "a", "l">>}

RECURSIVE NamesOf(_)
NamesOf(n) ==
    IF n = 0 THEN {<<>>}
    ELSE LET shorter == NamesOf(n - 1)
         IN  shorter \cup {a \o t : a \in shorter, t \in NameTokens}

ExampleNames ==
    [claude |-> <<"c", "l", "a", "u", "d", "e", "-", "s", "o", "n", "n", "e", "t", "-", "4">>,
     gemini |-> <<"g", "e", "m", "i", "n", "i", "-", "2", ".", "0", "-", "f", "l", "a", "s", "h">>,
     gpt |-> <<"g", "p", "t", "-", "4", "o", "-", "m", "i", "n", "i">>,
     mistral |-> <<"m", "i", "s", "t", "r", "a", "l", "-", "l", "a", "r", "g", "e">>]

ModelNames ==
    NamesOf(MaxNameTokens)
        \cup {ExampleNames[k] : k \in DOMAIN ExampleNames}

RECURSIVE SeqsUpTo(_, _)
SeqsUpTo(S, n) ==
    IF n = 0 THEN {<<>>}
    ELSE LET shorter == SeqsUpTo(S, n - 1)
         IN  shorter \cup {Append(q, x) : q \in shorter, x \in S}


\* An element of a top-level "content" list
Blocks ==
    {[isdict |-> TRUE, type |-> "text", has_text |-> TRUE, text |-> <<"h", "i">>],
     [isdict |-> TRUE, type |-> "text", has_text |-> TRUE, text |-> <<"!">>],
     [isdict |-> TRUE, type |-> "text", has_text |-> FALSE, text |-> <<>>],
     [isdict |-> TRUE, type |-> "tool_use", has_text |-> TRUE, text |-> <<"!">>],
     [isdict |-> FALSE, type |-> None, has_text |-> FALSE, text |-> <<>>]}

\* An element of candidates[i].content.parts
Parts ==
    {[isdict |-> TRUE, has_text |-> TRUE, text |-> <<"h", "i">>],
     [isdict |-> TRUE, has_text |-> TRUE, text |-> <<"!">>],
     [isdict |-> TRUE, has_text |-> TRUE, text |-> <<>>],
     [isdict |-> TRUE, has_text |-> FALSE, text |-> <<>>],
     [isdict |-> FALSE, has_text |-> FALSE, text |-> <<>>]}

UsageKeys == {"input_tokens", "output_tokens", "prompt_tokens",
              "completion_tokens", "total_tokens", "promptTokenCount",
              "candidatesTokenCount", "totalTokenCount"}

\* A dict of counters; some = FALSE when the key holding it is missing
UsageDict(kvs) ==
    [some |-> TRUE,
     kv |-> [k \in UsageKeys |-> IF k \in DOMAIN kvs THEN kvs[k] ELSE NoInt]]

NoUsage == [some |-> FALSE, kv |-> [k \in UsageKeys |-> NoInt]]

\* bool(d) of a dict that may be missing
DictTruthy(d) == d.some /\ \E k \in UsageKeys : d.kv[k] # NoInt

\* d.get(k, 0)
UsageGet(d, k) == IF d.kv[k] # NoInt THEN d.kv[k] ELSE 0

UsageValues ==
    {NoUsage,
     UsageDict(<<>>),
     UsageDict("input_tokens" :> 3 @@ "output_tokens" :> 1),
     UsageDict("input_tokens" :> 3),
     UsageDict("prompt_tokens" :> 3 @@ "completion_tokens" :> 1 @@ "total_tokens" :> 4),
     UsageDict("prompt_tokens" :> 3 @@ "completion_tokens" :> 1 @@ "total_tokens" :> 5)}

UsageMetadataFull ==
    UsageDict("promptTokenCount" :> 3 @@ "candidatesTokenCount" :> 1
              @@ "totalTokenCount" :> 4)

UsageMetadataValues ==
    {NoUsage, UsageDict(<<>>), UsageMetadataFull, UsageDict("promptTokenCount" :> 3)}

ContentMissing == [kind |-> "missing", blocks |-> <<>>]
ContentStr == [kind |-> "str", blocks |-> <<>>]
ContentValues ==
    {ContentMissing, ContentStr}
        \cup {[kind |-> "list", blocks |-> b] : b \in SeqsUpTo(Blocks, MaxBlocks)}

Candidate(parts) == [has_content |-> TRUE, parts |-> parts]
CandidatesMissing == [kind |-> "missing", items |-> <<>>]
CandidatesEmpty == [kind |-> "list", items |-> <<>>]
CandidatesSimple == [kind |-> "list", items |-> <<Candidate(<<[isdict |-> TRUE, has_text |-> TRUE, text |-> <<"!">>]>>)>>]
CandidatesValues ==
    {CandidatesMissing, CandidatesEmpty,
     [kind |-> "list", items |-> <<[has_content |-> FALSE, parts |-> <<>>]>>]}
        \cup {[kind |-> "list", items |-> <<Candidate(p)>>] :
                p \in SeqsUpTo(Parts, MaxBlocks)}
        \cup {[kind |-> "list",
               items |-> <<Candidate(p), Candidate(<<[isdict |-> TRUE, has_text |-> TRUE, text |-> <<"!">>]>>)>>] :
                p \in SeqsUpTo(Parts, MaxBlocks)}

Choice(content) == [has_message |-> TRUE, has_content |-> TRUE, content |-> content]
ChoicesMissing == [kind |-> "missing", items |-> <<>>]
ChoicesSimple == [kind |-> "list", items |-> <<Choice(<<"h", "i">>)>>]
ChoicesValues ==
    {ChoicesMissing,
     [kind |-> "list", items |-> <<>>],
     ChoicesSimple,
     [kind |-> "list", items |-> <<Choice(<<>>)>>],
     [kind |-> "list", items |-> <<Choice(<<"h", "i">>), Choice(<<"!">>)>>],
     [kind |-> "list", items |-> <<[has_message |-> FALSE, has_content |-> FALSE, content |-> <<>>]>>],
     [kind |-> "list", items |-> <<[has_message |-> TRUE, has_content |-> FALSE, content |-> <<>>]>>]}

RawBody(c, g, o, u, m) ==
    [content |-> c, candidates |-> g, choices |-> o, usage |-> u,
     usageMetadata |-> m]

\* Response bodies: each key takes all its values while the keys of the
\* other shapes are missing or hold a simple value
RawBodies ==
    {RawBody(c, g, o, u, m) :
        c \in ContentValues,
        g \in {CandidatesMissing, CandidatesEmpty, CandidatesSimple},
        o \in {ChoicesMissing, ChoicesSimple},
        u \in UsageValues,
        m \in {NoUsage, UsageMetadataFull}}
    \cup
    {RawBody(c, g, o, u, m) :
        c \in {ContentMissing, ContentStr},
        g \in CandidatesValues,
        o \in {ChoicesMissing, ChoicesSimple},
        u \in {NoUsage, UsageDict("prompt_tokens" :> 3 @@ "completion_tokens" :> 1 @@ "total_tokens" :> 4)},
        m \in UsageMetadataValues}
    \cup
    {RawBody(c, g, o, u, m) :
        c \in {ContentMissing, ContentStr},
        g \in {CandidatesMissing, CandidatesEmpty},
        o \in ChoicesValues,
        u \in UsageValues,
        m \in {NoUsage, UsageMetadataFull}}

\* Mutant of ResponseShape: candidates are examined before content
ResponseShapeGoogleFirst(r) ==
    IF r.candidates.kind = "list" /\ Len(r.candidates.items) > 0 THEN "google"
    ELSE IF r.content.kind = "list" THEN "anthropic"
    ELSE "openai"

\* The branch extract_response_content takes
ResponseShape(r) ==
    IF r.content.kind = "list" THEN "anthropic"
    ELSE IF r.candidates.kind = "list" /\ Len(r.candidates.items) > 0 THEN "google"
    ELSE "openai"

\* for block in raw["content"]: content += block.get("text", "")
RECURSIVE BlocksText(_, _)
BlocksText(blocks, content) ==
    IF blocks = <<>> THEN content
    ELSE LET block == Head(blocks)
         IN  BlocksText(Tail(blocks),
                        IF block.isdict /\ block.type = "text"
                        THEN content \o (IF block.has_text THEN block.text ELSE <<>>)
                        ELSE content)

\* for part in parts: content += part["text"]
RECURSIVE PartsText(_, _)
PartsText(parts, content) ==
    IF parts = <<>> THEN content
    ELSE LET part == Head(parts)
         IN  PartsText(Tail(parts),
                       IF part.isdict /\ part.has_text /\ part.text # <<>>
                       THEN content \o part.text
                       ELSE content)

\* extract_response_content
ExtractResponseContent(r) ==
    LET shape == ResponseShape(r)
    IN  CASE shape = "anthropic" ->
                [content |-> BlocksText(r.content.blocks, <<>>),
                 usage |->
                    IF DictTruthy(r.usage)
                    THEN LET input_t == UsageGet(r.usage, "input_tokens")
                             output_t == UsageGet(r.usage, "output_tokens")
                         IN  UsageDict("prompt_tokens" :> input_t
                                       @@ "completion_tokens" :> output_t
                                       @@ "total_tokens" :> input_t + output_t)
                    ELSE NoUsage]
          [] shape = "google" ->
                LET first == r.candidates.items[1]
                    parts == IF first.has_content THEN first.parts ELSE <<>>
                    um == r.usageMetadata
                IN  [content |-> PartsText(parts, <<>>),
                     usage |->
                        IF DictTruthy(um)
                        THEN UsageDict(
                                "prompt_tokens" :> UsageGet(um, "promptTokenCount")
                                @@ "completion_tokens" :> UsageGet(um, "candidatesTokenCount")
                                @@ "total_tokens" :> UsageGet(um, "totalTokenCount"))
                        ELSE NoUsage]
          [] OTHER ->
                LET choices == r.choices.items
                IN  [content |->
                        IF choices # <<>>
                        THEN (IF choices[1].has_message /\ choices[1].has_content
                              THEN choices[1].content ELSE <<>>)
                        ELSE <<>>,
                     usage |-> r.usage]

NoUsageInfo ==
    [some |-> FALSE, prompt_tokens |-> NoInt, completion_tokens |-> NoInt,
     total_tokens |-> NoInt]

\* Mnexium.process lines 359-365: the UsageInfo of the ProcessResponse
UsageInfo(usage_dict) ==
    IF DictTruthy(usage_dict)
    THEN [some |-> TRUE,
          prompt_tokens |-> UsageGet(usage_dict, "prompt_tokens"),
          completion_tokens |-> UsageGet(usage_dict, "completion_tokens"),
          total_tokens |-> UsageGet(usage_dict, "total_tokens")]
    ELSE NoUsageInfo

InitProviders ==
    /\ TransportNotUsed
    /\ ProcessNotUsed
    /\ StreamNotUsed
    /\ \/ /\ prov_pc = "detect"
          /\ model_name \in ModelNames
          /\ raw = NotUsed
       \/ /\ prov_pc = "extract"
          /\ raw \in RawBodies
          /\ model_name = NotUsed
    /\ detected_provider = NotUsed
    /\ extracted = NotUsed

\* detect_provider(model_name)
Detect ==
    /\ prov_pc = "detect"
    /\ prov_pc' = "detected"
    /\ detected_provider' = DetectProvider(model_name)
    /\ UNCHANGED <<model_name, raw, extracted>>
    /\ UNCHANGED <<transportVars, processVars, streamVars>>

\* The non-streaming tail of Mnexium.process on the response body raw
Extract ==
    /\ prov_pc = "extract"
    /\ prov_pc' = "extracted"
    /\ LET result == ExtractResponseContent(raw)
       IN  extracted' = [content |-> result.content,
                         usage_dict |-> result.usage,
                         usage |-> UsageInfo(result.usage)]
    /\ UNCHANGED <<model_name, raw, detected_provider>>
    /\ UNCHANGED <<transportVars, processVars, streamVars>>

NextProviders ==
    \/ Detect
    \/ Extract

SpecProviders == InitProviders /\ [][NextProviders]_vars

\* ------------------------------------------------------------------------
\* Claims about the providers module
\* ------------------------------------------------------------------------

\* Concatenation of the texts of the elements of q that sel accepts
RECURSIVE JoinTexts(_, _)
JoinTexts(q, sel) ==
    IF q = <<>> THEN <<>>
    ELSE JoinTexts(SubSeq(q, 1, Len(q) - 1), sel)
            \o (IF q[Len(q)] \in sel THEN q[Len(q)].text ELSE <<>>)

Triple(a, b, c) ==
    [some |-> TRUE, prompt_tokens |-> a, completion_tokens |-> b, total_tokens |-> c]

Counter(d, k) == IF d.kv[k] = NoInt THEN 0 ELSE d.kv[k]

ExampleOpenAI ==
    RawBody(ContentMissing, CandidatesMissing, ChoicesSimple,
            UsageDict("prompt_tokens" :> 3 @@ "completion_tokens" :> 1 @@ "total_tokens" :> 4),
            NoUsage)

ExampleAnthropic ==
    RawBody([kind |-> "list",
             blocks |-> <<[isdict |-> TRUE, type |-> "text", has_text |-> TRUE, text |-> <<"h", "i">>]>>],
            CandidatesMissing, ChoicesMissing,
            UsageDict("input_tokens" :> 3 @@ "output_tokens" :> 1), NoUsage)

\* C16: response normalization tries exactly one shape per body, the first
\* structural match in the order Anthropic (top-level content is a list: the
\* text-typed blocks concatenated, usage input, output, input + output),
\* Google (non-empty candidates: parts[].text of the first candidate
\* concatenated, the three usageMetadata counters), OpenAI (default:
\* choices[0].message.content, usage passed through); the OpenAI and the
\* Anthropic example bodies both give content "hi" and usage (3, 1, 4).
C16_ShapeOrder ==
    prov_pc = "extracted" =>
        /\ IF raw.content.kind = "list"
           THEN /\ extracted.content =
                      JoinTexts(raw.content.blocks,
                                {b \in Blocks : b.isdict /\ b.type = "text"})
                /\ extracted.usage =
                      IF DictTruthy(raw.usage)
                      THEN Triple(Counter(raw.usage, "input_tokens"),
                                  Counter(raw.usage, "output_tokens"),
                                  Counter(raw.usage, "input_tokens")
                                    + Counter(raw.usage, "output_tokens"))
                      ELSE NoUsageInfo
           ELSE IF raw.candidates.items # <<>>
           THEN /\ extracted.content =
                      JoinTexts(raw.candidates.items[1].parts,
                                {p \in Parts : p.isdict /\ p.has_text})
                /\ extracted.usage =
                      IF DictTruthy(raw.usageMetadata)
                      THEN Triple(Counter(raw.usageMetadata, "promptTokenCount"),
                                  Counter(raw.usageMetadata, "candidatesTokenCount"),
                                  Counter(raw.usageMetadata, "totalTokenCount"))
                      ELSE NoUsageInfo
           ELSE /\ extracted.content =
                      IF raw.choices.items # <<>>
                      THEN raw.choices.items[1].content ELSE <<>>
                /\ extracted.usage_dict = raw.usage
                /\ extracted.usage =
                      IF DictTruthy(raw.usage)
                      THEN Triple(Counter(raw.usage, "prompt_tokens"),
                                  Counter(raw.usage, "completion_tokens"),
                                  Counter(raw.usage, "total_tokens"))
                      ELSE NoUsageInfo
        /\ raw \in {ExampleOpenAI, ExampleAnthropic} =>
                /\ extracted.content = <<"h", "i">>
                /\ extracted.usage = Triple(3, 1, 4)

C16_Witness ==
    /\ prov_pc = "extracted"
    /\ raw.content.kind = "list"
    /\ Len(raw.content.blocks) = 2
    /\ raw.content.blocks[1].type = "tool_use"
    /\ raw.content.blocks[2].text = <<"h", "i">>
    /\ raw.candidates = CandidatesSimple
    /\ raw.choices = ChoicesSimple
    /\ extracted.content = <<"h", "i">>
    /\ extracted.usage = Triple(3, 1, 4)

SameLetter(a, b) ==
    \/ a = b
    \/ \E i \in DOMAIN UpperCase : {a, b} = {UpperCase[i], LowerCase[i]}

\* kw occurs in name, letters compared without regard to case
HasKeyword(name, kw) ==
    \E off \in 0..(Len(name) - Len(kw)) :
        \A k \in 1..Len(kw) : SameLetter(name[off + k], kw[k])

\* C17: detect_provider matches keywords as case-insensitive substrings with
\* fixed precedence: "claude" gives anthropic; else "gemini" or "palm" gives
\* google; else "gpt", "o1", "o3" or "davinci" gives openai; else absent.
\* "claude-sonnet-4" is anthropic, "gemini-2.0-flash" google, "gpt-4o-mini"
\* openai and "mistral-large" absent.
C17_DetectProvider ==
    prov_pc = "detected" =>
        /\ detected_provider =
              IF HasKeyword(model_name, Kw.claude) THEN "anthropic"
              ELSE IF HasKeyword(model_name, Kw.gemini) \/ HasKeyword(model_name, Kw.palm)
              THEN "google"
              ELSE IF \/ HasKeyword(model_name, Kw.gpt)
                      \/ HasKeyword(model_name, Kw.o1)
                      \/ HasKeyword(model_name, Kw.o3)
                      \/ HasKeyword(model_name, Kw.davinci)
              THEN "openai"
              ELSE None
        /\ model_name = ExampleNames.claude => detected_provider = "anthropic"
        /\ model_name = ExampleNames.gemini => detected_provider = "google"
        /\ model_name = ExampleNames.gpt => detected_provider = "openai"
        /\ model_name = ExampleNames.mistral => detected_provider = None

C17_Witness ==
    /\ prov_pc = "detected"
    /\ model_name = <<"g", "p", "t", "-", "C", "l", "a", "u", "d", "e">>
    /\ detected_provider = "anthropic"

\* ========================================================================
\* The stream decoders (src/mnexium/streaming.py, src/mnexium/events.py)
\* ========================================================================

\* Most frames on the wire of one stream
MaxFrames == 3

\* Most bytes of a read chunk that ends inside a line
MaxChunk == 2

\* Most attempts to iterate one StreamResponse
MaxIterations == 2

\* Bytes are one-character strings, except the two bytes C3 A9 of U+00E9.
\* U+FFFD is the replacement character of decode(errors="replace").

\* A frame carries the JSON object that "{...}" stands for: the characters
\* after the opening brace are its text delta; "#" and three digits are an
\* OpenAI usage (prompt, completion, total), "@" and two digits the usage of
\* an Anthropic message_delta (input, output), "%" and three digits a Google
\* usageMetadata.  The frame tail has no terminating newline.
Frame ==
    [a |-> <<"d", "a", "t", "a", ":", " ", "{", "a", "}", "\n">>,
     e |-> <<"d", "a", "t", "a", ":", "{", "C3", "A9", "}", "\n">>,
     bad |-> <<"d", "a", "t", "a", ":", "{", "b", "\n">>,
     done |-> <<"d", "a", "t", "a", ":", "[", "D", "O", "N", "E", "]", "\n">>,
     empty |-> <<"d", "a", "t", "a", ":", "\n">>,
     usage |-> <<"d", "a", "t", "a", ":", "{", "#", "1", "1", "2", "}", "\n">>,
     anth |-> <<"d", "a", "t", "a", ":", "{", "@", "3", "1", "}", "\n">>,
     goog |-> <<"d", "a", "t", "a", ":", "{", "a", "%", "2", "1", "3", "}", "\n">>,
     event |-> <<"e", "v", "e", "n", "t", ":", "e", "\n">>,
     event2 |-> <<"e", "v", "e", "n", "t", ":", " ", "f", "\n">>,
     blank |-> <<"\n">>,
     tail |-> <<"d", "a", "t", "a", ":", "{", "t", "}">>]

\* The frames a response body is made of: one of these sets per body
FrameFamilies(d) ==
    IF d = "StreamResponse"
    THEN {{Frame.a, Frame.e},
          {Frame.a, Frame.bad, Frame.done, Frame.empty},
          {Frame.a, Frame.usage, Frame.anth, Frame.goog}}
    ELSE {{Frame.a, Frame.bad, Frame.done, Frame.empty},
          {Frame.a, Frame.event, Frame.event2, Frame.blank}}

RECURSIVE Flatten(_)
Flatten(frames) ==
    IF frames = <<>> THEN <<>> ELSE Head(frames) \o Flatten(Tail(frames))

\* raw_bytes.decode("utf-8", errors="replace")
RECURSIVE Decode(_)
Decode(raw_bytes) ==
    IF raw_bytes = <<>> THEN <<>>
    ELSE IF Head(raw_bytes) = "C3"
    THEN (IF Len(raw_bytes) >= 2 /\ raw_bytes[2] = "A9"
          THEN <<"U+00E9">> \o Decode(SubSeq(raw_bytes, 3, Len(raw_bytes)))
          ELSE <<"U+FFFD">> \o Decode(Tail(raw_bytes)))
    ELSE IF Head(raw_bytes) = "A9" THEN <<"U+FFFD">> \o Decode(Tail(raw_bytes))
    ELSE <<Head(raw_bytes)>> \o Decode(Tail(raw_bytes))

\* buffer.split("\n")
RECURSIVE SplitLines(_)
SplitLines(str) ==
    IF \A i \in DOMAIN str : str[i] # "\n" THEN <<str>>
    ELSE LET i == CHOOSE k \in DOMAIN str :
                    str[k] = "\n" /\ \A j \in 1..(k - 1) : str[j] # "\n"
         IN  <<SubSeq(str, 1, i - 1)>> \o SplitLines(SubSeq(str, i + 1, Len(str)))

\* str.startswith(prefix)
StartsWith(str, prefix) ==
    Len(str) >= Len(prefix) /\ SubSeq(str, 1, Len(prefix)) = prefix

\* The string literals of the decoders
Literal ==
    [event |-> <<"e", "v", "e", "n", "t", ":">>,
     data |-> <<"d", "a", "t", "a", ":">>,
     done |-> <<"[", "D", "O", "N", "E", "]">>,
     unknown |-> <<"u", "n", "k", "n", "o", "w", "n">>]

\* int(c) of a digit character
DigitValue(c) ==
    CHOOSE n \in 0..9 : <<"0", "1", "2", "3", "4", "5", "6", "7", "8", "9">>[n + 1] = c

\* json.loads(data) on a payload of the frames
JsonLoadsPayload(data) ==
    LET inner == SubSeq(data, 2, Len(data) - 1)
        marks == {i \in DOMAIN inner : inner[i] \in {"#", "@", "%"}}
        first == IF marks = {} THEN Len(inner) + 1
                 ELSE CHOOSE i \in marks : \A j \in marks : i <= j
        rest == SubSeq(inner, first, Len(inner))
        ulen == IF rest # <<>> /\ rest[1] = "#" THEN 4
                ELSE IF rest # <<>> /\ rest[1] = "@" THEN 3
                ELSE 0
        u == SubSeq(rest, 1, ulen)
        g == SubSeq(rest, ulen + 1, Len(rest))
        digits(str) ==
            \A i \in 2..Len(str) :
                str[i] \in {"0", "1", "2", "3", "4", "5", "6", "7", "8", "9"}
        wellformed ==
            /\ Len(data) >= 2
            /\ data[1] = "{"
            /\ data[Len(data)] = "}"
            /\ \A i \in DOMAIN inner : inner[i] \notin {"{", "}"}
            /\ Len(rest) >= ulen
            /\ digits(u)
            /\ g = <<>> \/ (Len(g) = 4 /\ g[1] = "%" /\ digits(g))
    IN  IF ~wellformed
        THEN [ok |-> FALSE, content |-> <<>>, type |-> None, usage |-> NoUsage,
              usageMetadata |-> NoUsage]
        ELSE [ok |-> TRUE,
              content |-> SubSeq(inner, 1, first - 1),
              type |-> IF ulen = 3 THEN "message_delta" ELSE None,
              usage |->
                  IF ulen = 4
                  THEN UsageDict("prompt_tokens" :> DigitValue(u[2])
                                 @@ "completion_tokens" :> DigitValue(u[3])
                                 @@ "total_tokens" :> DigitValue(u[4]))
                  ELSE IF ulen = 3
                  THEN UsageDict("input_tokens" :> DigitValue(u[2])
                                 @@ "output_tokens" :> DigitValue(u[3]))
                  ELSE NoUsage,
              usageMetadata |->
                  IF g # <<>>
                  THEN UsageDict("promptTokenCount" :> DigitValue(g[2])
                                 @@ "candidatesTokenCount" :> DigitValue(g[3])
                                 @@ "totalTokenCount" :> DigitValue(g[4]))
                  ELSE NoUsage]

\* Mutant of SetUsage: the counters of successive usage payloads add up
SetUsageSum(current, new) ==
    IF current.some
    THEN [some |-> TRUE,
          prompt_tokens |-> current.prompt_tokens + new.prompt_tokens,
          completion_tokens |-> current.completion_tokens + new.completion_tokens,
          total_tokens |-> current.total_tokens + new.total_tokens]
    ELSE new

\* self.usage = UsageInfo(...)
SetUsage(current, new) == new

\* StreamResponse._extract_usage: three tests in turn, each overwriting
ExtractUsage(data, current) ==
    LET openai ==
            IF DictTruthy(data.usage)
            THEN SetUsage(current,
                          [some |-> TRUE,
                           prompt_tokens |-> UsageGet(data.usage, "prompt_tokens"),
                           completion_tokens |-> UsageGet(data.usage, "completion_tokens"),
                           total_tokens |-> UsageGet(data.usage, "total_tokens")])
            ELSE current
        anthropic ==
            IF data.type = "message_delta" /\ DictTruthy(data.usage)
            THEN LET inp == UsageGet(data.usage, "input_tokens")
                     out == UsageGet(data.usage, "output_tokens")
                 IN  SetUsage(openai,
                              [some |-> TRUE, prompt_tokens |-> inp,
                               completion_tokens |-> out,
                               total_tokens |-> inp + out])
            ELSE openai
    IN  IF DictTruthy(data.usageMetadata)
        THEN SetUsage(anthropic,
                      [some |-> TRUE,
                       prompt_tokens |-> UsageGet(data.usageMetadata, "promptTokenCount"),
                       completion_tokens |-> UsageGet(data.usageMetadata, "candidatesTokenCount"),
                       total_tokens |-> UsageGet(data.usageMetadata, "totalTokenCount")])
        ELSE anthropic

\* Mutant of PayloadErrorCaught: no except clause around json.loads
PayloadErrorCaughtNever(err) == FALSE

\* except (json.JSONDecodeError, ValueError): pass
PayloadErrorCaught(err) == err \in {"JSONDecodeError", "ValueError"}

\* The body of `for line in lines` of StreamResponse.__iter__
StreamResponseLine(line, st) ==
    LET trimmed == Strip(line)
        data == Strip(SubSeq(trimmed, 6, Len(trimmed)))
        parsed == JsonLoadsPayload(data)
    IN  IF StartsWith(trimmed, Literal.event) \/ ~StartsWith(trimmed, Literal.data) THEN st
        ELSE IF data = <<>> \/ data = Literal.done THEN st
        ELSE IF ~parsed.ok
        THEN (IF PayloadErrorCaught("JSONDecodeError") THEN st
              ELSE [st EXCEPT !.raised = TRUE])
        ELSE [st EXCEPT
                !.yielded = IF parsed.content # <<>>
                            THEN Append(@, [type |-> <<>>, content |-> parsed.content])
                            ELSE @,
                !.total_content = @ \o parsed.content,
                !.usage = ExtractUsage(parsed, @)]

\* Mutant of NextEvent: a delivered payload leaves the pending name in place
NextEventKept(name) == name

\* current_event = "" after a data payload was delivered
NextEvent(name) == <<>>

\* The body of `for line in lines` of EventStream.__iter__
EventStreamLine(line, st) ==
    LET trimmed == Strip(line)
        data == Strip(SubSeq(trimmed, 6, Len(trimmed)))
        parsed == JsonLoadsPayload(data)
    IN  IF StartsWith(trimmed, Literal.event)
        THEN [st EXCEPT !.current_event = Strip(SubSeq(trimmed, 7, Len(trimmed)))]
        ELSE IF StartsWith(trimmed, Literal.data)
        THEN (IF data = <<>> THEN st
              ELSE IF ~parsed.ok
              THEN (IF PayloadErrorCaught("JSONDecodeError") THEN st
                    ELSE [st EXCEPT !.raised = TRUE])
              ELSE [st EXCEPT
                      !.yielded =
                          Append(@, [type |-> IF st.current_event # <<>>
                                              THEN st.current_event ELSE Literal.unknown,
                                     content |-> parsed.content]),
                      !.current_event = NextEvent(@)])
        ELSE IF trimmed = <<>> THEN [st EXCEPT !.current_event = <<>>]
        ELSE st

\* for line in lines, until an exception leaves the loop
RECURSIVE DecodeLines(_, _, _)
DecodeLines(d, lines, st) ==
    IF lines = <<>> \/ st.raised THEN st
    ELSE DecodeLines(d, Tail(lines),
                     IF d = "StreamResponse"
                     THEN StreamResponseLine(Head(lines), st)
                     ELSE EventStreamLine(Head(lines), st))

\* Mutant of DecodeChunk: every line of the split is processed at once and
\* nothing is carried over
DecodeChunkNoCarry(d, raw_bytes, buf, st) ==
    [st |-> DecodeLines(d, SplitLines(buf \o Decode(raw_bytes)), st),
     buffer |-> <<>>]

\* One pass of `for raw_bytes in self._response.iter_bytes()` on the decoder
\* state st with the text buffer buf
DecodeChunk(d, raw_bytes, buf, st) ==
    LET lines == SplitLines(buf \o Decode(raw_bytes))
        after == DecodeLines(d, SubSeq(lines, 1, Len(lines) - 1), st)
    IN  [st |-> after, buffer |-> lines[Len(lines)]]

\* No call of text() so far
NoText == [state |-> "none", value |-> <<>>, at |-> None]

\* What text() hands over once it has its string, or the exception it lets
\* through, for a call made when the stream was at position at
TextEnds(how, value, at) == [state |-> how, value |-> value, at |-> at]

\* Mutant of TextMustDrain: text() iterates the stream whatever its state
TextMustDrainAlways(c) == TRUE

\* if not self._consumed
TextMustDrain(c) == ~c

\* Mutant of AlreadyConsumed: the reuse check is missing
AlreadyConsumedNever(c) == FALSE

\* if self._consumed
AlreadyConsumed(c) == c

\* The response bodies: up to MaxFrames frames of one family, the last of
\* which may be a line the server never terminated
Wires(d) ==
    UNION {SeqsUpTo(F, MaxFrames)
             \cup {Append(w, Frame.tail) : w \in SeqsUpTo(F, MaxFrames - 1)}
           : F \in FrameFamilies(d)}

\* A decoder over a response whose body is the frames of wire
InitStream ==
    /\ TransportNotUsed
    /\ ProcessNotUsed
    /\ ProvidersNotUsed
    /\ decoder \in {"StreamResponse", "EventStream"}
    /\ wire \in Wires(decoder)
    /\ remaining = Flatten(wire)
    /\ buffer = <<>>
    /\ current_event = <<>>
    /\ yielded = <<>>
    /\ total_content = <<>>
    /\ usage = NoUsageInfo
    /\ consumed = FALSE
    /\ stream_pc = "new"
    /\ closed = FALSE
    /\ iterations = 0
    /\ reuse_errors = 0
    /\ text_result = NoText
    /\ _closed = FALSE
    /\ _connected = FALSE
    /\ chunk_lines = <<>>

\* The first next() on a new iterator of the decoder
StartIter ==
    /\ iterations < MaxIterations
    /\ text_result.state # "draining"
    /\ iterations' = iterations + 1
    /\ IF decoder = "StreamResponse"
       THEN IF AlreadyConsumed(consumed)
            THEN /\ reuse_errors' = reuse_errors + 1
                 /\ UNCHANGED <<consumed, stream_pc, buffer, current_event>>
            ELSE /\ consumed' = TRUE
                 /\ stream_pc' = "iterating"
                 /\ buffer' = <<>>
                 /\ UNCHANGED <<reuse_errors, current_event>>
       ELSE /\ stream_pc = "new"
            /\ stream_pc' = "iterating"
            /\ buffer' = <<>>
            /\ current_event' = <<>>
            /\ UNCHANGED <<consumed, reuse_errors>>
    /\ UNCHANGED <<decoder, wire, remaining, yielded, total_content, usage, closed,
                   text_result>>
    /\ UNCHANGED <<transportVars, processVars, providerVars, eventVars>>

\* iter_bytes() hands over the next n bytes and the loop body runs on them
ReadChunk(n) ==
    /\ stream_pc = "iterating"
    /\ n \in 1..Len(remaining)
    /\ LET raw_bytes == SubSeq(remaining, 1, n)
           st0 == [yielded |-> yielded, total_content |-> total_content,
                   usage |-> usage, current_event |-> current_event,
                   raised |-> FALSE]
           res == DecodeChunk(decoder, raw_bytes, buffer, st0)
       IN  /\ yielded' = res.st.yielded
           /\ total_content' = res.st.total_content
           /\ usage' = res.st.usage
           /\ current_event' = res.st.current_event
           /\ IF res.st.raised
              THEN /\ stream_pc' = "raised"
                   /\ closed' = TRUE
                   /\ remaining' = <<>>
                   /\ buffer' = <<>>
                   /\ text_result' = IF text_result.state = "draining"
                                     THEN TextEnds("raised", <<>>, text_result.at)
                                     ELSE text_result
              ELSE /\ remaining' = SubSeq(remaining, n + 1, Len(remaining))
                   /\ buffer' = res.buffer
                   /\ UNCHANGED <<stream_pc, closed, text_result>>
    /\ UNCHANGED <<decoder, wire, consumed, iterations, reuse_errors>>
    /\ UNCHANGED <<transportVars, processVars, providerVars, eventVars>>

\* iter_bytes() is exhausted: the loop ends and finally closes the response
Finish ==
    /\ stream_pc = "iterating"
    /\ remaining = <<>>
    /\ stream_pc' = "done"
    /\ closed' = TRUE
    /\ buffer' = <<>>
    /\ text_result' = IF text_result.state = "draining"
                      THEN TextEnds("returned", total_content, text_result.at)
                      ELSE text_result
    /\ UNCHANGED <<decoder, wire, remaining, current_event, yielded,
                   total_content, usage, consumed, iterations, reuse_errors>>
    /\ UNCHANGED <<transportVars, processVars, providerVars, eventVars>>

\* iter_bytes() raises: the error leaves the generator through finally
ReadFail ==
    /\ stream_pc = "iterating"
    /\ stream_pc' = "failed"
    /\ closed' = TRUE
    /\ remaining' = <<>>
    /\ buffer' = <<>>
    /\ text_result' = IF text_result.state = "draining"
                      THEN TextEnds("raised", <<>>, text_result.at)
                      ELSE text_result
    /\ UNCHANGED <<decoder, wire, current_event, yielded, total_content, usage,
                   consumed, iterations, reuse_errors>>
    /\ UNCHANGED <<transportVars, processVars, providerVars, eventVars>>

\* The consumer stops pulling at a yield and keeps the iterator: the
\* generator stays suspended inside its try block
Hold ==
    /\ stream_pc = "iterating"
    /\ yielded # <<>>
    /\ text_result.state # "draining"
    /\ stream_pc' = "held"
    /\ UNCHANGED <<decoder, wire, remaining, buffer, current_event, yielded,
                   total_content, usage, consumed, closed, iterations,
                   reuse_errors, text_result>>
    /\ UNCHANGED <<transportVars, processVars, providerVars, eventVars>>

\* The iterator suspended at a yield is dropped: GeneratorExit runs finally
Abandon ==
    /\ stream_pc \in {"iterating", "held"}
    /\ yielded # <<>>
    /\ text_result.state # "draining"
    /\ stream_pc' = "abandoned"
    /\ closed' = TRUE
    /\ remaining' = <<>>
    /\ buffer' = <<>>
    /\ UNCHANGED <<decoder, wire, current_event, yielded, total_content, usage,
                   consumed, iterations, reuse_errors, text_result>>
    /\ UNCHANGED <<transportVars, processVars, providerVars, eventVars>>

\* stream.text(): iterate to the end unless an iteration was started before,
\* then return total_content.  The consumer calls it in place of a loop or
\* after one, not from inside the body of a loop over the same stream.
Text ==
    /\ decoder = "StreamResponse"
    /\ text_result.state \in {"none", "returned"}
    /\ stream_pc \notin {"iterating", "held"}
    /\ IF TextMustDrain(consumed)
       THEN IF AlreadyConsumed(consumed)
            THEN /\ text_result' = TextEnds("reuse_error", <<>>, stream_pc)
                 /\ UNCHANGED <<consumed, stream_pc, buffer>>
            ELSE /\ consumed' = TRUE
                 /\ stream_pc' = "iterating"
                 /\ buffer' = <<>>
                 /\ text_result' = TextEnds("draining", <<>>, stream_pc)
       ELSE /\ text_result' = TextEnds("returned", total_content, stream_pc)
            /\ UNCHANGED <<consumed, stream_pc, buffer>>
    /\ UNCHANGED <<decoder, wire, remaining, current_event, yielded,
                   total_content, usage, closed, iterations, reuse_errors>>
    /\ UNCHANGED <<transportVars, processVars, providerVars, eventVars>>

\* The sizes of the next read chunk: a few bytes, the rest of the line, or
\* all that is left
ChunkSizes ==
    (1..MaxChunk)
        \cup {Len(remaining)}
        \cup {k \in 1..Len(remaining) :
                remaining[k] = "\n" /\ \A j \in 1..(k - 1) : remaining[j] # "\n"}

NextStream ==
    \/ StartIter
    \/ \E n \in ChunkSizes : ReadChunk(n)
    \/ Finish
    \/ ReadFail
    \/ Hold
    \/ Abandon
    \/ Text

SpecStream == InitStream /\ [][NextStream]_vars

\* ------------------------------------------------------------------------
\* EventStream with close(): the iteration event by event, and close() called
\* from the consuming loop or from another thread
\* ------------------------------------------------------------------------

\* An EventStream just returned by subscribe()
InitClose == InitStream /\ decoder = "EventStream"

\* The first next(): _request_raw opens the connection, or raises
Open(ok) ==
    /\ stream_pc = "new"
    /\ IF ok
       THEN /\ _connected' = TRUE
            /\ stream_pc' = "reading"
       ELSE /\ stream_pc' = "open_failed"
            /\ UNCHANGED _connected
    /\ UNCHANGED <<decoder, wire, remaining, buffer, current_event, yielded,
                   total_content, usage, consumed, closed, iterations,
                   reuse_errors, text_result, _closed, chunk_lines>>
    /\ UNCHANGED <<transportVars, processVars, providerVars>>

\* iter_bytes() hands over the next n bytes: the loop leaves at once if
\* close() was called, else the chunk is decoded and split into lines
Arrive(n) ==
    /\ stream_pc = "reading"
    /\ n \in 1..Len(remaining)
    /\ remaining' = SubSeq(remaining, n + 1, Len(remaining))
    /\ IF _closed
       THEN /\ stream_pc' = "stopped"
            /\ _connected' = FALSE
            /\ closed' = TRUE
            /\ UNCHANGED <<buffer, chunk_lines>>
       ELSE LET split == SplitLines(buffer \o Decode(SubSeq(remaining, 1, n)))
            IN  /\ chunk_lines' = SubSeq(split, 1, Len(split) - 1)
                /\ buffer' = split[Len(split)]
                /\ stream_pc' = "lines"
                /\ UNCHANGED <<_connected, closed>>
    /\ UNCHANGED <<decoder, wire, current_event, yielded, total_content, usage,
                   consumed, iterations, reuse_errors, text_result, _closed>>
    /\ UNCHANGED <<transportVars, processVars, providerVars>>

\* The generator runs on, after a line that yielded nothing or when the
\* consumer asks for the next event: the next line of the chunk is looked at,
\* or the next read begins
NextLine ==
    /\ stream_pc \in {"lines", "yielded"}
    /\ IF chunk_lines = <<>>
       THEN /\ stream_pc' = "reading"
            /\ UNCHANGED <<chunk_lines, yielded, current_event, _connected, closed>>
       ELSE LET st == EventStreamLine(Head(chunk_lines),
                                      [yielded |-> yielded,
                                       total_content |-> total_content,
                                       usage |-> usage,
                                       current_event |-> current_event,
                                       raised |-> FALSE])
            IN  /\ chunk_lines' = Tail(chunk_lines)
                /\ yielded' = st.yielded
                /\ current_event' = st.current_event
                /\ IF st.raised
                   THEN /\ stream_pc' = "raised"
                        /\ _connected' = FALSE
                        /\ closed' = TRUE
                   ELSE /\ stream_pc' = IF Len(st.yielded) > Len(yielded)
                                        THEN "yielded" ELSE "lines"
                        /\ UNCHANGED <<_connected, closed>>
    /\ UNCHANGED <<decoder, wire, remaining, buffer, total_content, usage,
                   consumed, iterations, reuse_errors, text_result, _closed>>
    /\ UNCHANGED <<transportVars, processVars, providerVars>>

\* iter_bytes() ends, the server having ended the stream or the response
\* having been closed under the read: the loop ends and finally runs
Exhausted ==
    /\ stream_pc = "reading"
    /\ remaining = <<>> \/ closed
    /\ stream_pc' = "stopped"
    /\ _connected' = FALSE
    /\ closed' = TRUE
    /\ UNCHANGED <<decoder, wire, remaining, buffer, current_event, yielded,
                   total_content, usage, consumed, iterations, reuse_errors,
                   text_result, _closed, chunk_lines>>
    /\ UNCHANGED <<transportVars, processVars, providerVars>>

\* iter_bytes() raises, on a network failure or because the read found the
\* response closed by close(): nothing catches it, finally runs and the
\* exception reaches the consumer
ReadRaises ==
    /\ stream_pc = "reading"
    /\ stream_pc' = IF closed THEN "raised" ELSE "failed"
    /\ _connected' = FALSE
    /\ closed' = TRUE
    /\ UNCHANGED <<decoder, wire, remaining, buffer, current_event, yielded,
                   total_content, usage, consumed, iterations, reuse_errors,
                   text_result, _closed, chunk_lines>>
    /\ UNCHANGED <<transportVars, processVars, providerVars>>

\* events.close(), from the consumer between two events or from another
\* thread at any moment
Close ==
    /\ _closed' = TRUE
    /\ _connected' = FALSE
    /\ closed' = IF stream_pc \in {"new", "open_failed"} THEN closed ELSE TRUE
    /\ UNCHANGED <<decoder, wire, remaining, buffer, current_event, yielded,
                   total_content, usage, consumed, stream_pc, iterations,
                   reuse_errors, text_result, chunk_lines>>
    /\ UNCHANGED <<transportVars, processVars, providerVars>>

\* The consumer leaves its loop at an event: GeneratorExit runs finally
Break ==
    /\ stream_pc = "yielded"
    /\ stream_pc' = "stopped"
    /\ _connected' = FALSE
    /\ closed' = TRUE
    /\ UNCHANGED <<decoder, wire, remaining, buffer, current_event, yielded,
                   total_content, usage, consumed, iterations, reuse_errors,
                   text_result, _closed, chunk_lines>>
    /\ UNCHANGED <<transportVars, processVars, providerVars>>

NextClose ==
    \/ \E ok \in BOOLEAN : Open(ok)
    \/ \E n \in ChunkSizes : Arrive(n)
    \/ NextLine
    \/ Exhausted
    \/ ReadRaises
    \/ Close
    \/ Break

SpecClose == InitClose /\ [][NextClose]_vars

\* ------------------------------------------------------------------------
\* Claims about the stream decoders
\* ------------------------------------------------------------------------

\* What the decoder yields when the whole wire arrives as one read chunk
WholeDelivery ==
    DecodeChunk("StreamResponse", Flatten(wire), <<>>,
                [yielded |-> <<>>, total_content |-> <<>>, usage |-> NoUsageInfo,
                 current_event |-> <<>>, raised |-> FALSE]).st

\* C18: for a fixed byte sequence of SSE frames, the chunk contents a
\* StreamResponse yields and its final total_content are the same for every
\* way of splitting the bytes into read chunks.
C18_SplitIndependent ==
    (decoder = "StreamResponse" /\ stream_pc = "done") =>
        /\ yielded = WholeDelivery.yielded
        /\ total_content = WholeDelivery.total_content

IsWellFormed(frame) == frame \in {Frame.a, Frame.e, Frame.goog}

\* The value a well-formed frame delivers; a character cut by a read
\* boundary arrives as replacement characters
ContentsOf(frame) ==
    IF frame \in {Frame.a, Frame.goog} THEN {<<"a">>}
    ELSE {<<"U+00E9">>, <<"U+FFFD", "U+FFFD">>}

\* C19: in both stream decoders a payload that cannot be decoded is dropped
\* without raising and without affecting the others: the well-formed payloads
\* before and after it are delivered in order, and an empty or "[DONE]"
\* payload produces no value.
C19_MalformedDropped ==
    /\ stream_pc # "raised"
    /\ stream_pc = "done" =>
        LET expected == SelectSeq(wire, IsWellFormed)
        IN  /\ Len(yielded) = Len(expected)
            /\ \A i \in DOMAIN yielded : yielded[i].content \in ContentsOf(expected[i])

C19_Witness ==
    /\ decoder = "EventStream"
    /\ stream_pc = "done"
    /\ wire = <<Frame.a, Frame.bad, Frame.a>>
    /\ Len(yielded) = 2

\* C20: a StreamResponse is one-shot: once an iteration has started, every
\* later attempt to iterate it, the first having completed, failed or been
\* abandoned, fails with the reuse error, yields no chunk and leaves
\* total_content and usage unchanged.
C20_OneShot ==
    [][(decoder = "StreamResponse" /\ consumed /\ iterations' # iterations) =>
            /\ reuse_errors' = reuse_errors + 1
            /\ yielded' = yielded
            /\ total_content' = total_content
            /\ usage' = usage
            /\ stream_pc' = stream_pc]_vars

C20_Witness ==
    /\ decoder = "StreamResponse"
    /\ stream_pc = "abandoned"
    /\ yielded # <<>>
    /\ usage.some
    /\ reuse_errors = 1


\* ------------------------------------------------------------------------
\* Claims C21 to C30
\* ------------------------------------------------------------------------

\* C25: a memory_policy override given to Chat.process (a policy id or false)
\* takes effect: the request carries it in the x-mnx-memory-policy header and
\* in the mnx block exactly as Mnexium.process would for the same value.
C25_ChatOverride ==
    (entry = "chat.process" /\ call_options.memory_policy.t # "none") =>
        LET direct == ProcessRequest(call_options, client_defaults,
                                     provider_configs)
        IN  /\ request.mnx["memory_policy"] = direct.mnx["memory_policy"]
            /\ request.memory_policy_header = direct.memory_policy_header


\* Sum of a sequence of wait durations
RECURSIVE SumOf(_)
SumOf(durations) ==
    IF durations = <<>> THEN 0
    ELSE durations[1] + SumOf(Tail(durations))

\* C26: in the buffered retry loop the wait after failed attempt k (counted
\* from 0) is 2^k seconds and lies between attempt k and attempt k + 1; no wait
\* follows the final attempt or a failure that is not retried, and a call that
\* exhausts max_retries retries has waited 2^max_retries - 1 seconds in all.
C26_Backoff ==
    path = "buffered" =>
        /\ \A k \in DOMAIN waits : waits[k] = 2 ^ (k - 1)
        /\ pc = "send" => Len(waits) = attempts
        /\ pc \in {"sleep", "returned", "raised"} => Len(waits) = attempts - 1
        /\ pc = "sleep" => (GotResponse => handle.closed)
        /\ (pc = "raised" /\ attempts = max_retries + 1) =>
              SumOf(waits) = 2 ^ max_retries - 1

C26_Witness ==
    /\ path = "buffered" /\ pc = "raised" /\ max_retries = MaxRetries
    /\ attempts = MaxRetries + 1 /\ NetFailed
    /\ Len(waits) = MaxRetries /\ waits[MaxRetries] = 2 ^ (MaxRetries - 1)
    /\ SumOf(waits) = 2 ^ MaxRetries - 1


\* What a lookup method returns for "absent"
Absent404 == [kind |-> "return", value |-> NoValue, error |-> NoError]

C24_WitnessPropagated ==
    /\ path = "buffered" /\ pc = "raised" /\ attempts = max_retries + 1
    /\ GotResponse /\ response.status = 500 /\ max_retries > 0
    /\ lookup = outcome


\* The event names a wire of frames calls for: the name of the latest event:
\* line, forgotten at a blank line and once a payload was delivered with it
RECURSIVE ExpectedTypes(_, _)
ExpectedTypes(frames, pending) ==
    IF frames = <<>> THEN <<>>
    ELSE LET f == Head(frames)
             rest == Tail(frames)
         IN  IF f = Frame.event THEN ExpectedTypes(rest, <<"e">>)
             ELSE IF f = Frame.event2 THEN ExpectedTypes(rest, <<"f">>)
             ELSE IF f = Frame.blank THEN ExpectedTypes(rest, <<>>)
             ELSE IF f = Frame.a
             THEN <<IF pending # <<>> THEN pending ELSE Literal.unknown>>
                      \o ExpectedTypes(rest, <<>>)
             ELSE ExpectedTypes(rest, pending)

\* C27: each memory event is tagged with the name of the most recent event:
\* line not since reset; a blank line and a delivered data payload each reset
\* the name, and a payload with no pending name is tagged "unknown".
C27_EventTagged ==
    (decoder = "EventStream" /\ stream_pc = "done") =>
        LET expected == ExpectedTypes(wire, <<>>)
        IN  /\ Len(yielded) = Len(expected)
            /\ \A i \in DOMAIN yielded : yielded[i].type = expected[i]

C27_Witness ==
    /\ decoder = "EventStream"
    /\ stream_pc = "done"
    /\ wire = <<Frame.event, Frame.a, Frame.a>>
    /\ Len(yielded) = 2
    /\ yielded[1].type = <<"e">>
    /\ yielded[2].type = Literal.unknown

C27_WitnessLatest ==
    /\ decoder = "EventStream"
    /\ stream_pc = "done"
    /\ wire = <<Frame.event, Frame.event2, Frame.a>>
    /\ Len(yielded) = 1
    /\ yielded[1].type = <<"f">>


\* The usage triple a frame carries, if it carries one
FrameUsage(frame) ==
    IF frame = Frame.usage THEN Triple(1, 1, 2)
    ELSE IF frame = Frame.anth THEN Triple(3, 1, 3 + 1)
    ELSE IF frame = Frame.goog THEN Triple(2, 1, 3)
    ELSE NoUsageInfo

\* The triple of the last usage-bearing frame, absent when there is none
RECURSIVE LastUsage(_)
LastUsage(frames) ==
    IF frames = <<>> THEN NoUsageInfo
    ELSE IF FrameUsage(frames[Len(frames)]).some
    THEN FrameUsage(frames[Len(frames)])
    ELSE LastUsage(SubSeq(frames, 1, Len(frames) - 1))

\* Concatenation of the contents of the chunks of q
RECURSIVE JoinContents(_)
JoinContents(q) ==
    IF q = <<>> THEN <<>> ELSE Head(q).content \o JoinContents(Tail(q))

\* C28: after a token-delta stream has been iterated to its end, usage is the
\* triple of the last usage-bearing payload (OpenAI usage, Anthropic
\* message_delta usage with total = input + output, Google usageMetadata),
\* never a sum, and absent if there was none; total_content is the
\* concatenation, in order, of the contents of exactly the chunks yielded.
C28_UsageLastWins ==
    decoder = "StreamResponse" =>
        /\ total_content = JoinContents(yielded)
        /\ stream_pc = "done" => usage = LastUsage(wire)

C28_Witness ==
    /\ decoder = "StreamResponse"
    /\ stream_pc = "done"
    /\ wire = <<Frame.usage, Frame.goog, Frame.anth>>
    /\ usage = Triple(3, 1, 4)
    /\ total_content = <<"a">>
    /\ Len(yielded) = 1

\* The frames of a wire that have arrived whole, newline included, among the
\* first n bytes
RECURSIVE CompleteFrames(_, _)
CompleteFrames(frames, n) ==
    IF frames = <<>> THEN <<>>
    ELSE IF Len(Head(frames)) > n \/ Head(frames) = Frame.tail THEN <<>>
    ELSE <<Head(frames)>> \o CompleteFrames(Tail(frames), n - Len(Head(frames)))

\* The frames that deliver a value once their line is processed
Delivers(frame) ==
    IF decoder = "StreamResponse" THEN IsWellFormed(frame)
    ELSE frame = Frame.a

\* C29: in both decoders a line is examined only once its terminating newline
\* has arrived: what has been yielded is what the lines received whole call
\* for, the text after the last newline waits in the buffer, and a final line
\* without newline is never processed.
C29_LineTerminated ==
    stream_pc \in {"iterating", "done"} =>
        LET received == Len(Flatten(wire)) - Len(remaining)
            whole == CompleteFrames(wire, received)
        IN  /\ Len(yielded) = Len(SelectSeq(whole, Delivers))
            /\ stream_pc = "iterating" =>
                  (buffer = <<>> <=> Len(Flatten(whole)) = received)
            /\ stream_pc = "done" => \A i \in DOMAIN yielded :
                  yielded[i].content # <<"t">>

C29_Witness ==
    /\ stream_pc = "done"
    /\ wire = <<Frame.a, Frame.tail>>
    /\ Len(yielded) = 1

C29_WitnessPending ==
    /\ decoder = "StreamResponse"
    /\ stream_pc = "iterating"
    /\ wire = <<Frame.a>>
    /\ remaining = <<"\n">>
    /\ buffer # <<>>
    /\ yielded = <<>>


\* C21: text() on a StreamResponse not yet iterated drains it to the end and
\* returns the concatenation of all content fragments in order; text() on a
\* stream already drained (by text() or by a full iteration) returns that
\* same string, reads nothing more and does not raise.
C21_TextDrains ==
    decoder = "StreamResponse" =>
        /\ text_result.state # "reuse_error"
        /\ text_result.state = "draining" =>
              text_result.at = "new" /\ stream_pc = "iterating"
        /\ (text_result.state = "returned" /\ text_result.at \in {"new", "done"}) =>
              /\ stream_pc = "done"
              /\ closed
              /\ remaining = <<>>
              /\ text_result.value = total_content
              /\ text_result.value = JoinContents(yielded)
              /\ Len(yielded) = Len(SelectSeq(wire, IsWellFormed))
        /\ (text_result.state = "raised" /\ text_result.at = "new") =>
              stream_pc = "failed"

C21_Witness ==
    /\ decoder = "StreamResponse"
    /\ wire = <<Frame.a, Frame.bad, Frame.a>>
    /\ text_result = TextEnds("returned", <<"a", "a">>, "new")
    /\ iterations = 0

C21_WitnessAgain ==
    /\ decoder = "StreamResponse"
    /\ wire = <<Frame.a, Frame.a>>
    /\ text_result = TextEnds("returned", <<"a", "a">>, "done")
    /\ iterations = 1
    /\ reuse_errors = 0

\* C23: the response behind a token-delta stream is always released: it is
\* closed once iteration has reached the end, once decoding or reading has
\* raised, and once the consumer has stopped pulling before the end.
C23_AlwaysReleased ==
    (decoder = "StreamResponse"
        /\ stream_pc \in {"done", "raised", "failed", "abandoned", "held"}) =>
        closed


\* C22: closing an EventStream that is being iterated, from the consuming
\* loop or from another thread, between chunks or during a blocking read,
\* makes the iteration stop without raising to the consumer, and afterwards
\* the connection is closed and is_connected is false.
C22_CloseStopsCleanly ==
    (decoder = "EventStream" /\ _closed /\ closed) =>
        /\ stream_pc # "raised"
        /\ stream_pc = "stopped" => ~_connected

\* C30: once close() has returned the stream delivers no further event, and
\* when close() came before the iteration started no connection is opened and
\* is_connected does not become true.
C30_NoEventAfterClose ==
    [][(decoder = "EventStream" /\ _closed) =>
            /\ yielded' = yielded
            /\ stream_pc = "new" => (stream_pc' # "reading" /\ ~_connected')]_vars

=============================================================================
